---- MODULE Spec2Model ----
(***************************************************************************)
(* Mail2printer: the polling/dedup engine (EmailHandler) and the print     *)
(* orchestrator (Mail2PrinterService), with the stop path that the signal  *)
(* handler and the API server run concurrently with the polling loop.      *)
(***************************************************************************)
EXTENDS Integers, Sequences, FiniteSets, TLC

\* ---------------------------------------------------------------- bounds
\* number of messages in the mailbox
NumMsgs == 2
\* number of poll cycles the loop runs
MaxCycles == 2
\* number of disturbances in one run: mail server calls that fail,
\* attachment files that cannot be written, stop() calls (API requests,
\* signals), restart requests and interrupts inside a poll cycle
MaxFaults == 1
\* number of print operations called on the printer manager
MaxPrints == 2

\* ------------------------------------------------------ program constants
\* email_handler.py:315  len(self._processed_message_ids) > 1000
HighWater == 1000
\* email_handler.py:323  list(...)[-500:]
LowWater == 500
\* config.py:41  filters.max_attachment_size
MaxAttachmentSize == 10485760

Msgs == 1..NumMsgs

\* the Message-ID of a message without that header (raw_message.get('Message-ID', ''))
NoId == 0

\* --------------------------------------------------------------- helpers
\* ascending sequence of the numbers in S (message sequence numbers as the
\* search returns them)
RECURSIVE SortedSeq(_)
SortedSeq(S) ==
    IF S = {} THEN <<>>
    ELSE LET lo == CHOOSE x \in S : \A y \in S : x <= y
         IN <<lo>> \o SortedSeq(S \ {lo})

\* ------------------------------------------------------------ raw messages
\* the bodies of the raw messages, as the code points of their characters:
\* no body part, a body of white space only (a space, a vertical tab, a
\* no-break space, a line feed), a body with text ("hi" and a line feed)
NoBody == <<>>
BlankBody == <<32, 11, 160, 10>>
TextBody == <<104, 105, 10>>

\* a content type "major/minor", as mimetypes.guess_type gives it for the
\* name of a file; NoType is None (the name has no known extension)
Type(major, minor) == [major |-> major, minor |-> minor]
NoType == Type("", "")
PdfType == Type("application", "pdf")

\* the attachment parts of the raw messages: whether the part carries a
\* file name, whether the name ends in an allowed extension, the content
\* type of the name, and the size of the payload
Part(ext_ok, size) ==
    [named |-> TRUE, ext_ok |-> ext_ok,
     ctype |-> IF ext_ok THEN PdfType
               ELSE Type("application", "x-msdos-program"),
     size |-> size]
\* a part whose Content-Disposition has no filename
UnnamedPart == [named |-> FALSE, ext_ok |-> TRUE, ctype |-> PdfType,
                size |-> 1]
\* a part with an empty payload
EmptyPart == [named |-> TRUE, ext_ok |-> TRUE, ctype |-> PdfType, size |-> 0]
\* a text file
TextPart == [named |-> TRUE, ext_ok |-> TRUE, ctype |-> Type("text", "plain"),
             size |-> 1]

\* an image
ImagePart == [named |-> TRUE, ext_ok |-> TRUE, ctype |-> Type("image", "png"),
              size |-> 1]

\* A raw message: whether it carries a Message-ID header, whether its subject
\* contains a configured keyword, its text and html bodies and its attachment
\* parts.
RawPlain   == [has_id |-> TRUE,  kw |-> TRUE,  text |-> TextBody,
               html |-> NoBody, parts |-> <<UnnamedPart>>]
RawRichAtt == [has_id |-> TRUE,  kw |-> TRUE,  text |-> TextBody,
               html |-> TextBody,
               parts |-> <<EmptyPart, Part(TRUE, 1), ImagePart>>]
RawNoId    == [has_id |-> FALSE, kw |-> TRUE,  text |-> TextBody,
               html |-> TextBody, parts |-> <<>>]
RawTwoAtt  == [has_id |-> TRUE,  kw |-> TRUE,  text |-> BlankBody,
               html |-> NoBody,
               parts |-> <<Part(TRUE, MaxAttachmentSize), TextPart>>]
RawBadExt  == [has_id |-> TRUE,  kw |-> TRUE,  text |-> TextBody,
               html |-> NoBody, parts |-> <<Part(FALSE, 1)>>]
RawEmpty   == [has_id |-> FALSE, kw |-> TRUE,  text |-> NoBody,
               html |-> BlankBody, parts |-> <<>>]
RawOversize == [has_id |-> TRUE, kw |-> TRUE,  text |-> TextBody,
               html |-> NoBody,
               parts |-> <<Part(TRUE, MaxAttachmentSize + 1),
                           Part(TRUE, MaxAttachmentSize)>>]

RawBlankHtml == [has_id |-> TRUE, kw |-> TRUE, text |-> TextBody,
               html |-> BlankBody, parts |-> <<>>]

RawKinds == <<RawPlain, RawRichAtt, RawTwoAtt, RawBadExt, RawNoId, RawEmpty,
              RawOversize, RawBlankHtml>>

\* the mailbox layouts: layout k puts kind (m + k) at sequence number m
Layouts == 0..(Len(RawKinds) - 1)
RawOf(lay, m) == RawKinds[((m + lay) % Len(RawKinds)) + 1]

\* ----------------------------------------------------------- configuration
\* the configuration keys the engine and the orchestrator read
CfgDefault == [mark_as_read |-> TRUE, delete_after_print |-> FALSE,
               print_attachments |-> TRUE, print_text_emails |-> TRUE,
               print_html_emails |-> TRUE]
Configs ==
    { CfgDefault,
      [CfgDefault EXCEPT !.delete_after_print = TRUE],
      [CfgDefault EXCEPT !.mark_as_read = FALSE],
      [CfgDefault EXCEPT !.mark_as_read = FALSE, !.delete_after_print = TRUE,
                         !.print_html_emails = FALSE],
      [CfgDefault EXCEPT !.print_attachments = FALSE],
      [CfgDefault EXCEPT !.delete_after_print = TRUE,
                         !.print_attachments = FALSE,
                         !.print_text_emails = FALSE] }

\* ------------------------------------------------------------------ state
VARIABLES
    cfg,               \* the configuration (fixed after construction)
    layout,            \* which raw message is at which sequence number
    seen,              \* messages carrying the \Seen flag on the server
    deleted,           \* messages carrying the \Deleted flag on the server
    expunged,          \* messages removed from the mailbox
    imap_connection,   \* "none" (None), "unauth" (object, login failed), "auth"
    processed_ids,     \* _processed_message_ids: ids of the mailbox's messages
    processed_others,  \* _processed_message_ids: number of other ids it holds
    running,           \* Mail2PrinterService.running
    stats,             \* Mail2PrinterService.stats
    pc,                \* position of the polling thread
    todo,              \* search results the for loop has not handled yet
    cur,               \* the message the for loop is handling
    emails,            \* the accepted batch of the cycle (message numbers)
    idx,               \* position of _process_emails in the batch
    log,               \* calls made since the current cycle began
    base_processed,    \* emails_processed when _process_emails was entered
    cycles,            \* poll cycles begun so far
    faults,            \* failed mail server calls and stop() calls so far
    accepted_in,       \* per message, the cycles that accepted it
    stop_done,         \* some stop() call has run
    cycle_after_stop,  \* the current cycle began after such a stop()
    stop_pc,           \* position of the thread that runs stop()
    selected,          \* the connection has a mailbox selected
    saved_files,       \* _print_attachments: the saved files not yet printed
    printed_count,     \* _print_attachments: printed_count
    interrupted,       \* where a KeyboardInterrupt ended the loop
    entry_stats        \* stats when _process_single_email was entered

\* the state of the polling engine and the orchestrator
pollvars == <<cfg, layout, seen, deleted, expunged, imap_connection,
              processed_ids, processed_others, running, stats, pc, todo, cur,
              emails, idx, log, base_processed, cycles, faults, accepted_in,
              stop_done, cycle_after_stop, stop_pc, selected, saved_files,
              printed_count, interrupted, entry_stats>>

\* the state of the printer manager
VARIABLES
    pconf,                   \* the printer.* and processing.* keys it reads
    cups_connection,         \* TRUE: a spooler connection, FALSE: None
    last_image_orientation,  \* _last_image_orientation (<<>> for None)
    active_jobs,             \* the job ids in _active_jobs
    next_job,                \* the id the spooler gives the next job
    ptrace,                  \* what the print operation called last has
                             \* done so far, in order
    prints                   \* print operations called so far

pmvars == <<pconf, cups_connection, last_image_orientation, active_jobs,
            next_job, ptrace, prints>>

\* the state of the Config objects and of the service object
VARIABLES
    heap,      \* the section dictionaries: DEFAULT_CONFIG's, then the copies
    configs,   \* per Config instance: data, the dictionary of each section
    service,   \* the Mail2PrinterService object and the Config it was given
    disk,      \* per path, the configuration file that is there
    file_calls \* load() and save() calls made on constructed instances

confvars == <<heap, configs, service, disk, file_calls>>

\* the operations followed step by step
VARIABLES
    wait,      \* the wait_for_job_completion call under way
    tempfiles, \* the temporary files of the print operations that exist
    call       \* the print operation under way: where it is and what it holds

opvars == <<wait, tempfiles, call>>

vars == <<pollvars, pmvars, confvars, opvars>>

\* ------------------------------------------------------------------ words
\* A word (a configuration value, a subject, a file name, an HTML
\* document) is the sequence of the code points of its characters.
\* the characters from the space to the tilde, in the order of their code
\* points (the backslash and the backtick by their names)
AsciiChars ==
    <<" ", "!", "\"", "#", "$", "%", "&", "'", "(", ")", "*", "+", ",", "-",
      ".", "/", "0", "1", "2", "3", "4", "5", "6", "7", "8", "9", ":", ";",
      "<", "=", ">", "?", "@", "A", "B", "C", "D", "E", "F", "G", "H", "I",
      "J", "K", "L", "M", "N", "O", "P", "Q", "R", "S", "T", "U", "V", "W",
      "X", "Y", "Z", "[", "BACKSLASH", "]", "^", "_", "BACKTICK", "a", "b", "c", "d", "e",
      "f", "g", "h", "i", "j", "k", "l", "m", "n", "o", "p", "q", "r", "s",
      "t", "u", "v", "w", "x", "y", "z", "{", "|", "}", "~">>

\* ord(): the code point of a character of AsciiChars
Ord(ch) == 31 + CHOOSE k \in 1..Len(AsciiChars) : AsciiChars[k] = ch

\* the word written with the characters chars
Codes(chars) == [i \in 1..Len(chars) |-> Ord(chars[i])]

\* the characters the words are made of: Basic Latin, Latin-1 Supplement
\* and Latin Extended-A
Alphabet == 0..383

\* capital I with dot above, small dotless i, small long s, and the
\* combining dot above
CapitalIWithDot == 304
DotlessI == 305
LongS == 383
CombiningDot == 775

\* str.lower() on one character of Alphabet: the code points of the result
LowerChar(c) ==
    IF c \in 65..90 \/ c \in 192..214 \/ c \in 216..222 THEN <<c + 32>>
    ELSE IF c = CapitalIWithDot THEN <<105, CombiningDot>>
    ELSE IF c = 376 THEN <<255>>
    ELSE IF \/ c \in 256..311 /\ c % 2 = 0
            \/ c \in 313..328 /\ c % 2 = 1
            \/ c \in 330..375 /\ c % 2 = 0
            \/ c \in 377..382 /\ c % 2 = 1
    THEN <<c + 1>>
    ELSE <<c>>

RECURSIVE Flatten(_)
Flatten(ss) == IF ss = <<>> THEN <<>> ELSE Head(ss) \o Flatten(Tail(ss))

\* str.lower() on a word over Alphabet
StrLower(str) == Flatten([i \in 1..Len(str) |-> LowerChar(str[i])])

\* the words of the orientation and quality maps
Portrait == Codes(<<"p", "o", "r", "t", "r", "a", "i", "t">>)
Landscape == Codes(<<"l", "a", "n", "d", "s", "c", "a", "p", "e">>)
ReversePortrait == Codes(<<"r", "e", "v", "e", "r", "s", "e", "-">>) \o Portrait
ReverseLandscape == Codes(<<"r", "e", "v", "e", "r", "s", "e", "-">>) \o Landscape
Draft == Codes(<<"d", "r", "a", "f", "t">>)
Normal == Codes(<<"n", "o", "r", "m", "a", "l">>)
High == Codes(<<"h", "i", "g", "h">>)

\* str.strip(): the white space at both ends removed. The characters are
\* code points; these are the ones str.isspace() holds for
Whitespace ==
    {9, 10, 11, 12, 13, 28, 29, 30, 31, 32, 133, 160, 5760}
    \cup 8192..8202 \cup {8232, 8233, 8239, 8287, 12288}

RECURSIVE LStrip(_)
LStrip(str) ==
    IF str # <<>> /\ Head(str) \in Whitespace THEN LStrip(Tail(str)) ELSE str

RECURSIVE RStrip(_)
RStrip(str) ==
    IF str # <<>> /\ str[Len(str)] \in Whitespace
    THEN RStrip(SubSeq(str, 1, Len(str) - 1)) ELSE str

Strip(str) == RStrip(LStrip(str))

\* ------------------------------------------------------ the Config class
\* the largest number of Config instances constructed
MaxConfigs == 2

\* the largest number of load() and save() calls made from outside
MaxFileCalls == 1

\* config.py DEFAULT_CONFIG, a class attribute: its email section and its
\* printer section, with the keys that validate() reads
DEFAULT_CONFIG ==
    << [server |-> "imap.gmail.com", port |-> 993, username |-> "",
        password |-> ""],
       [name |-> Codes(<<"d", "e", "f", "a", "u", "l", "t">>)] >>

\* the sections, and where the two section dictionaries of DEFAULT_CONFIG
\* are in the heap
Sections == {"email", "printer"}
DefaultAt == [email |-> 1, printer |-> 2]

\* a Config instance that has not been constructed
NoConfig == [made |-> FALSE, file |-> "none", path |-> "none", email |-> 0,
             printer |-> 0]

\* the paths given to Config, and what is at a path: no file, or a file
\* holding some sections with their values. At first there is one file,
\* with an email section that has the two credentials
ConfigPaths == {"a.json", "b.json", "config.yaml"}
NoFile == << >>
LoadedEmail == [username |-> "user", password |-> "pw"]
CredentialsFile == [email |-> LoadedEmail]
ConfigFiles == [p \in ConfigPaths |->
                   IF p = "config.yaml" THEN CredentialsFile ELSE NoFile]

\* Config._merge_configs for one section: a new dictionary, the loaded
\* values over a copy of the default's
MergeConfigs(default, loaded) ==
    [k \in DOMAIN default |->
        IF k \in DOMAIN loaded THEN loaded[k] ELSE default[k]]

\* Config.save, lines 96-109: data is dumped, every section with the
\* values it has at that moment
Dump(c) == [sec \in Sections |-> heap[c[sec]]]

\* Config.load, lines 74-94, for the instance i whose fields are c. Where
\* no file exists the defaults are saved to the path and data stays as it
\* is. Otherwise data becomes _merge_configs(DEFAULT_CONFIG, loaded): a
\* section that the file has is a new dictionary, the loaded values over
\* the default's (it takes the place of the dictionary that only this
\* instance held, if there was one), and every other section is the
\* dictionary of DEFAULT_CONFIG itself
Load(i, c) ==
    LET file == disk[c.path]
        fresh(sec) == sec \in DOMAIN file /\ c[sec] = DefaultAt[sec]
        merged(sec) == MergeConfigs(heap[DefaultAt[sec]], file[sec])
        email_at == IF "email" \notin DOMAIN file THEN DefaultAt.email
                    ELSE IF fresh("email") THEN Len(heap) + 1 ELSE c.email
        printer_at ==
            IF "printer" \notin DOMAIN file THEN DefaultAt.printer
            ELSE IF fresh("printer")
                 THEN Len(heap) + 1 + (IF fresh("email") THEN 1 ELSE 0)
                 ELSE c.printer
        own(sec) == sec \in DOMAIN file /\ c[sec] # DefaultAt[sec]
        kept == [k \in DOMAIN heap |->
                    IF own("email") /\ k = c.email THEN merged("email")
                    ELSE IF own("printer") /\ k = c.printer
                    THEN merged("printer")
                    ELSE heap[k]]
    IN IF file = NoFile
       THEN /\ disk' = [disk EXCEPT ![c.path] = Dump(c)]
            /\ configs' = [configs EXCEPT ![i] = c]
            /\ UNCHANGED heap
       ELSE /\ heap' = kept
                       \o (IF fresh("email") THEN << merged("email") >>
                           ELSE << >>)
                       \o (IF fresh("printer") THEN << merged("printer") >>
                           ELSE << >>)
            /\ configs' = [configs EXCEPT ![i] =
                              [c EXCEPT !.email = email_at,
                                        !.printer = printer_at]]
            /\ UNCHANGED disk

\* Config.__init__, lines 70-72: data is DEFAULT_CONFIG.copy(), a new outer
\* dictionary holding the section dictionaries of DEFAULT_CONFIG themselves,
\* then load()
NewConfig ==
    /\ \E i \in 1..MaxConfigs, path \in ConfigPaths :
         /\ ~configs[i].made
         /\ \A j \in 1..(i - 1) : configs[j].made
         /\ Load(i, [made |-> TRUE,
                     file |-> IF disk[path] = NoFile THEN "missing"
                              ELSE "found",
                     path |-> path,
                     email |-> DefaultAt.email,
                     printer |-> DefaultAt.printer])
    /\ UNCHANGED <<opvars, pollvars, pmvars, service, file_calls>>

\* Config.load called on an instance that exists
ConfigLoad ==
    /\ file_calls < MaxFileCalls
    /\ file_calls' = file_calls + 1
    /\ \E i \in 1..MaxConfigs :
         /\ configs[i].made
         /\ Load(i, configs[i])
    /\ UNCHANGED <<opvars, pollvars, pmvars, service>>

\* Config.save called on an instance that exists
ConfigSave ==
    /\ file_calls < MaxFileCalls
    /\ file_calls' = file_calls + 1
    /\ \E i \in 1..MaxConfigs :
         /\ configs[i].made
         /\ disk' = [disk EXCEPT ![configs[i].path] = Dump(configs[i])]
    /\ UNCHANGED <<opvars, pollvars, pmvars, heap, configs, service>>

\* the set() calls made, among them a printer name of one space
SetCalls ==
    { [section |-> "email", key |-> "username", value |-> "user"],
      [section |-> "email", key |-> "password", value |-> "pw"],
      [section |-> "email", key |-> "server", value |-> "mail.example.org"],
      [section |-> "printer", key |-> "name",
       value |-> Codes(<<"O", "f", "f", "i", "c", "e">>)],
      [section |-> "printer", key |-> "name", value |-> Codes(<<" ">>)] }

\* Config.set: walks data to the section dictionary and assigns the key
ConfigSet ==
    /\ \E i \in 1..MaxConfigs, c \in SetCalls :
         /\ configs[i].made
         /\ heap[configs[i][c.section]][c.key] # c.value
         /\ heap' = [heap EXCEPT ![configs[i][c.section]][c.key] = c.value]
    /\ UNCHANGED <<opvars, pollvars, pmvars, configs, service, disk,
                   file_calls>>

\* Config.get
ConfigGet(i, section, key) == heap[configs[i][section]][key]

\* validate(), line 193: the printer name is empty or blank
NameMissing(printer_name) ==
    printer_name = << >> \/ Strip(printer_name) = << >>

\* a validation that asks for the username only
ValidateUsernameOnly(i) ==
    /\ ConfigGet(i, "email", "username") # ""
    /\ ConfigGet(i, "email", "port") > 0
    /\ ~NameMissing(ConfigGet(i, "printer", "name"))

\* Config.validate
Validate(i) ==
    /\ ConfigGet(i, "email", "username") # ""
    /\ ConfigGet(i, "email", "password") # ""
    /\ ConfigGet(i, "email", "port") > 0
    /\ ~NameMissing(ConfigGet(i, "printer", "name"))

\* no service object yet
NoService == [state |-> "none", config |-> 0]

\* Mail2PrinterService.__init__: raises ValueError when validate() is False
ConstructService ==
    /\ service = NoService
    /\ \E i \in 1..MaxConfigs :
         /\ configs[i].made
         /\ service' = [state |-> IF Validate(i) THEN "ready" ELSE "raised",
                        config |-> i]
    /\ UNCHANGED <<opvars, pollvars, pmvars, heap, configs, disk,
                   file_calls>>

\* main.py: a Config loaded from a file with the credentials, and a service
\* constructed with it
ServiceReady ==
    /\ disk = ConfigFiles
    /\ file_calls = 0
    /\ heap = Append(DEFAULT_CONFIG,
                     MergeConfigs(DEFAULT_CONFIG[DefaultAt.email],
                                  LoadedEmail))
    /\ configs = [i \in 1..MaxConfigs |->
                    IF i = 1 THEN [made |-> TRUE, file |-> "found",
                                   path |-> "config.yaml",
                                   email |-> Len(DEFAULT_CONFIG) + 1,
                                   printer |-> DefaultAt.printer]
                    ELSE NoConfig]
    /\ service = [state |-> "ready", config |-> 1]

\* ------------------------------------------------- printer configuration
\* config.py DEFAULT_CONFIG: the printer and processing sections
PConfDefault == [paper_size |-> "A4", orientation |-> Portrait,
                 quality |-> Draft, duplex |-> FALSE, color |-> TRUE,
                 max_pages |-> 50, convert_html |-> TRUE, pdfinfo |-> TRUE]

\* the configurations of the printer manager that are explored, with a
\* paper size that is not the A4 of the image and PDF paths and with words
\* in mixed case ("LandScape", "Reverse-landscape", "HiGH"); pdfinfo tells
\* whether the pdfinfo command is installed and works
PrinterConfigs ==
    [paper_size : {"Letter"},
     orientation : { Codes(<<"L", "a", "n", "d", "S", "c", "a", "p", "e">>),
                     Codes(<<"R">>) \o Tail(ReverseLandscape) },
     quality : { Codes(<<"H", "i", "G", "H">>) }, duplex : {FALSE}, color : {TRUE},
     max_pages : {0, 2}, convert_html : BOOLEAN, pdfinfo : BOOLEAN]

\* _last_image_orientation is None
NoOrientation == <<>>

\* no print operation is under way
NoCall == [pc |-> "none"]

\* PrinterManager.__init__ apart from the spooler connection and the options
PrinterManagerInit ==
    /\ last_image_orientation = NoOrientation
    /\ active_jobs = {}
    /\ next_job = 1
    /\ ptrace = <<>>
    /\ prints = 0

\* --------------------------------------------------------- message parsing
\* EmailMessage.message_id
MessageId(m) == IF RawOf(layout, m).has_id THEN m ELSE NoId

\* a part of exactly the maximum size dropped as well
HandleAttachmentsExclusive(parts) ==
    SelectSeq(parts, LAMBDA p : /\ p.named
                                /\ p.size # 0
                                /\ ~(p.size >= MaxAttachmentSize))

\* EmailMessage._handle_attachment on each attachment part: a part without
\* a file name (line 103), a part with an empty payload (line 111) and a
\* part larger than the maximum (line 115) are dropped
HandleAttachments(parts) ==
    SelectSeq(parts, LAMBDA p : /\ p.named
                                /\ p.size # 0
                                /\ ~(p.size > MaxAttachmentSize))

\* EmailMessage.__init__
EmailMessage(m) ==
    LET raw == RawOf(layout, m)
    IN [message_id |-> MessageId(m), kw |-> raw.kw,
        text_content |-> raw.text, html_content |-> raw.html,
        attachments |-> HandleAttachments(raw.parts)]

\* EmailHandler._should_process_email
ShouldProcessEmail(e) ==
    /\ e.kw
    /\ \A i \in 1..Len(e.attachments) :
          ~(e.attachments[i].size > MaxAttachmentSize)
    /\ \A i \in 1..Len(e.attachments) : e.attachments[i].ext_ok

\* the messages the UNSEEN search returns, in mailbox order
Unread == SortedSeq({m \in Msgs : m \notin seen /\ m \notin expunged})

\* len(self._processed_message_ids)
ProcessedLen == Cardinality(processed_ids) + processed_others

\* ------------------------------------------------------------------- Init
\* no wait_for_job_completion call has been made
NoWait == [pc |-> "none", job_id |-> 0, timeout |-> 0, start_time |-> 0,
           now |-> 0, polls |-> <<>>, asked |-> 0, answered |-> 0]

\* Mail2PrinterService.__init__ and EmailHandler.__init__
InitEngine ==
    /\ wait = NoWait
    /\ tempfiles = {}
    /\ call = NoCall
    /\ cfg \in Configs
    /\ layout \in Layouts
    /\ seen = {} /\ deleted = {} /\ expunged = {}
    /\ imap_connection = "none"
    /\ processed_ids = {}
    /\ running = FALSE
    /\ stats = [emails_processed |-> 0, emails_printed |-> 0,
                print_jobs_failed |-> 0]
    /\ pc = "init"
    /\ todo = <<>> /\ cur = 0 /\ emails = <<>> /\ idx = 0
    /\ log = <<>>
    /\ base_processed = 0
    /\ cycles = 0
    /\ faults = 0
    /\ accepted_in = [m \in Msgs |-> {}]
    /\ stop_done = FALSE
    /\ cycle_after_stop = FALSE
    /\ stop_pc = "none"
    /\ selected = FALSE
    /\ saved_files = <<>>
    /\ printed_count = 0
    /\ interrupted = "none"
    /\ entry_stats = stats

\* the service as constructed: the engine, and a printer manager with the
\* default configuration and a spooler connection
InitCommon ==
    /\ InitEngine
    /\ ServiceReady
    /\ pconf = PConfDefault
    /\ cups_connection = TRUE
    /\ PrinterManagerInit

Init == InitCommon /\ processed_others = 0

\* ------------------------------------------------------- polling thread
\* the failures a mail server call can end in (imaplib raises or answers
\* with a status other than OK)
MayFail(failures) == IF faults < MaxFaults THEN failures ELSE {}

\* a failed server call counts; "noconn" never reached the server
FaultsAfter(r) == IF r \in {"ok", "noconn"} THEN faults ELSE faults + 1

\* a disconnect that leaves the connection object in place
ConnectionKept == "auth"

\* EmailHandler.disconnect: the connection is dropped whatever close/logout do
Disconnected == "none"

\* IMAP CLOSE reaches the server only with a mailbox selected: in any other
\* state imaplib raises for it before anything is sent
CloseAccepted == imap_connection = "auth" /\ selected

\* IMAP CLOSE, sent by disconnect(): with a mailbox selected it removes the
\* messages flagged \Deleted (RFC 3501, 6.4.2)
ExpungedByClose ==
    IF CloseAccepted THEN expunged \cup deleted ELSE expunged

\* EmailHandler.disconnect, lines 206-214, from the call to its first wait
\* after a change, or to its end: after an accepted CLOSE logout() marks the
\* connection logged out and waits for the server; when close() raises,
\* logout() is not called and the finally clause drops the connection
AfterClose == IF CloseAccepted THEN "closed" ELSE Disconnected

\* Mail2PrinterService.run up to the loop: start() tests the connections and
\* sets running; a failed test raises RuntimeError out of run().
\* connect, lines 184-191, called by test_connection: the connection object
\* is made and stored
StartConnect ==
    /\ pc = "init"
    /\ service.state = "ready"
    /\ \E r \in {"ok", "no_server"} :
         /\ imap_connection' = IF r = "ok" THEN "unauth" ELSE imap_connection
         /\ selected' = IF r = "ok" THEN FALSE ELSE selected
         /\ pc' = IF r = "ok" THEN "start_login" ELSE "failed"
    /\ UNCHANGED <<opvars, entry_stats, confvars, pmvars, stop_pc, saved_files,
                   printed_count, interrupted, cfg, faults, layout, seen,
                   deleted, expunged, processed_ids, processed_others, stats,
                   todo, cur, emails, idx, log, base_processed, cycles,
                   accepted_in, stop_done, cycle_after_stop, running>>

\* connect, lines 193-202, called by test_connection: the login on the
\* stored connection; a refused login leaves the connection object in
\* place, and the login raises when a stop() has dropped or logged out the
\* connection in between
StartLogin ==
    /\ pc = "start_login"
    /\ \E r \in IF imap_connection = "unauth" THEN {"ok", "no_login"}
                ELSE {"noconn"} :
         /\ imap_connection' = IF r = "ok" THEN "auth" ELSE imap_connection
         /\ pc' = IF r = "ok" THEN "start_disconnect" ELSE "failed"
    /\ UNCHANGED <<opvars, entry_stats, confvars, pmvars, stop_pc, saved_files,
                   printed_count, interrupted, cfg, faults, layout, seen,
                   deleted, expunged, processed_ids, processed_others, stats,
                   todo, cur, emails, idx, log, base_processed, cycles,
                   accepted_in, stop_done, cycle_after_stop, running,
                   selected>>

\* test_connection, line 224: disconnect() after the connect that
\* succeeded. No mailbox is selected on this connection: close() raises and
\* the connection is dropped
StartDisconnect ==
    /\ pc = "start_disconnect"
    /\ imap_connection' = Disconnected
    /\ selected' = FALSE
    /\ pc' = "start_printer"
    /\ UNCHANGED <<opvars, entry_stats, confvars, pmvars, stop_pc, saved_files,
                   printed_count, interrupted, cfg, faults, layout, seen,
                   deleted, expunged, processed_ids, processed_others, stats,
                   todo, cur, emails, idx, log, base_processed, cycles,
                   accepted_in, stop_done, cycle_after_stop, running>>

\* _test_connections, lines 123-125, and start, lines 66-69: the printer
\* test, then running is set
StartPrinter ==
    /\ pc = "start_printer"
    /\ \E r \in {"ok", "no_printer"} :
         /\ running' = IF r = "ok" THEN TRUE ELSE running
         /\ pc' = IF r = "ok" THEN "idle" ELSE "failed"
    /\ UNCHANGED <<opvars, entry_stats, confvars, pmvars, stop_pc, saved_files,
                   printed_count, interrupted, cfg, faults, layout, seen,
                   deleted, expunged, processed_ids, processed_others, stats,
                   todo, cur, emails, idx, log, base_processed, cycles,
                   accepted_in, stop_done, cycle_after_stop, imap_connection,
                   selected>>

\* start(), step by step
Start == StartConnect \/ StartLogin \/ StartDisconnect \/ StartPrinter

\* run_check_loop's while True: the loop test of the polling loop
LoopContinues == TRUE

\* run_check_loop, line 384 and check_new_emails, line 235: a cycle begins
\* with the test of the connection
CycleStart ==
    /\ pc = "idle"
    /\ LoopContinues
    /\ cycles < MaxCycles
    /\ emails' = <<>> /\ todo' = <<>> /\ cur' = 0 /\ idx' = 0
    /\ log' = <<>>
    /\ cycle_after_stop' = (stop_done /\ ~running)
    /\ cycles' = cycles + 1
    /\ pc' = IF imap_connection = "none" THEN "connect" ELSE "select"
    /\ UNCHANGED <<opvars, entry_stats, confvars, pmvars, stop_pc, selected,
                   saved_files, printed_count, interrupted, cfg, layout, seen,
                   deleted, expunged, imap_connection, faults, processed_ids,
                   processed_others, running, stats, base_processed,
                   accepted_in, stop_done>>

\* connect, lines 184-191: the connection object is made and stored; when
\* the server cannot be reached connect returns False and the cycle ends
Connect ==
    /\ pc = "connect"
    /\ \E r \in {"ok"} \cup MayFail({"no_server"}) :
         /\ faults' = FaultsAfter(r)
         /\ imap_connection' = IF r = "ok" THEN "unauth" ELSE imap_connection
         /\ selected' = IF r = "ok" THEN FALSE ELSE selected
         /\ log' = IF r = "ok" THEN log ELSE Append(log, <<"connect", 0, r>>)
         /\ pc' = IF r = "ok" THEN "login" ELSE "idle"
    /\ UNCHANGED <<opvars, entry_stats, confvars, pmvars, stop_pc, saved_files,
                   printed_count, interrupted, cfg, layout, seen, deleted,
                   expunged, processed_ids, processed_others, running, stats,
                   todo, cur, emails, idx, base_processed, cycles,
                   accepted_in, stop_done, cycle_after_stop>>

\* connect, lines 193-202: the login on the stored connection; it raises
\* when a stop() has dropped or logged out the connection in between
Login ==
    /\ pc = "login"
    /\ \E r \in IF imap_connection = "unauth"
                THEN {"ok"} \cup MayFail({"no_login"})
                ELSE {"noconn"} :
         /\ faults' = FaultsAfter(r)
         /\ imap_connection' = IF r = "ok" THEN "auth" ELSE imap_connection
         /\ log' = Append(log, <<"connect", 0, r>>)
         /\ pc' = IF r = "ok" THEN "select" ELSE "idle"
    /\ UNCHANGED <<opvars, entry_stats, confvars, pmvars, stop_pc, selected,
                   saved_files, printed_count, interrupted, cfg, layout, seen,
                   deleted, expunged, processed_ids, processed_others,
                   running, stats, todo, cur, emails, idx, base_processed,
                   cycles, accepted_in, stop_done, cycle_after_stop>>

\* where the for loop goes after a message: the next one, or past the loop
AfterMessage(rest) == IF rest = <<>> THEN "expunge" ELSE "fetch"

\* check_new_emails, line 242: the folder is selected. The server answers
\* OK (the connection has the mailbox selected), answers with another
\* status (the connection has none selected, the code goes on), or the
\* call raises; without a logged-in connection it raises at once
Select ==
    /\ pc = "select"
    /\ IF imap_connection # "auth"
       THEN /\ log' = Append(log, <<"select", 0, "raise">>)
            /\ pc' = "handler"
            /\ UNCHANGED <<faults, selected>>
       ELSE \E r \in {"ok"} \cup MayFail({"no", "raise"}) :
              /\ faults' = FaultsAfter(r)
              /\ log' = IF r = "raise"
                        THEN Append(log, <<"select", 0, r>>) ELSE log
              /\ selected' = CASE r = "ok" -> TRUE
                                [] r = "no" -> FALSE
                                [] OTHER -> selected
              /\ pc' = IF r = "raise" THEN "handler" ELSE "search"
    /\ UNCHANGED <<opvars, entry_stats, confvars, pmvars, stop_pc, saved_files,
                   printed_count, interrupted, cfg, layout, seen, deleted,
                   expunged, imap_connection, processed_ids, processed_others,
                   running, stats, todo, cur, emails, idx, base_processed,
                   cycles, accepted_in, stop_done, cycle_after_stop>>

\* check_new_emails, lines 244-262: the search for the unread messages; a
\* bad status returns the empty batch, an exception goes to the handler;
\* without a selected mailbox the call raises at once
Search ==
    /\ pc = "search"
    /\ IF ~CloseAccepted
       THEN /\ log' = Append(log, <<"search", 0, "raise">>)
            /\ pc' = "handler"
            /\ todo' = <<>>
            /\ UNCHANGED faults
       ELSE \E r \in {"ok"} \cup MayFail({"bad", "raise"}) :
              /\ faults' = FaultsAfter(r)
              /\ log' = Append(log, <<"search", 0, r>>)
              /\ todo' = IF r = "ok" THEN Unread ELSE <<>>
              /\ pc' = CASE r = "ok" -> AfterMessage(Unread)
                          [] r = "bad" -> "idle"
                          [] OTHER -> "handler"
    /\ UNCHANGED <<opvars, entry_stats, confvars, pmvars, stop_pc, saved_files,
                   printed_count, interrupted, cfg, layout, seen, deleted,
                   expunged, imap_connection, selected, processed_ids,
                   processed_others, running, stats, cur, emails, idx,
                   base_processed, cycles, accepted_in, stop_done,
                   cycle_after_stop>>

\* check_new_emails, lines 328-333: the handler disconnects. With a
\* mailbox selected the CLOSE is sent: the server accepts it, or the call
\* fails on the connection that has just failed
HandlerClose ==
    /\ pc = "handler"
    /\ \E accepted \in IF CloseAccepted THEN BOOLEAN ELSE {FALSE} :
         /\ expunged' = IF accepted THEN ExpungedByClose ELSE expunged
         /\ imap_connection' = IF accepted THEN AfterClose ELSE Disconnected
         /\ pc' = IF accepted THEN "handler_logout" ELSE "idle"
    /\ selected' = FALSE
    /\ UNCHANGED <<opvars, entry_stats, confvars, pmvars, stop_pc, saved_files,
                   printed_count, interrupted, cfg, faults, layout, seen,
                   deleted, processed_ids, processed_others, running, stats,
                   todo, cur, emails, idx, log, base_processed, cycles,
                   accepted_in, stop_done, cycle_after_stop>>

\* disconnect, line 214, in the handler: the logout has returned, the
\* connection is dropped; check_new_emails returns the empty batch
HandlerDrop ==
    /\ pc = "handler_logout"
    /\ imap_connection' = Disconnected
    /\ selected' = FALSE
    /\ pc' = "idle"
    /\ UNCHANGED <<opvars, entry_stats, confvars, pmvars, stop_pc, saved_files,
                   printed_count, interrupted, cfg, faults, layout, seen,
                   deleted, expunged, processed_ids, processed_others,
                   running, stats, todo, cur, emails, idx, log,
                   base_processed, cycles, accepted_in, stop_done,
                   cycle_after_stop>>

\* a message that the filters reject goes on to the flag stores all the same
FetchFlagsRejected ==
    /\ pc = "fetch"
    /\ todo # <<>>
    /\ LET m == Head(todo)
           e == EmailMessage(m)
       IN \E r \in IF imap_connection = "auth"
                    THEN {"ok"} \cup MayFail({"bad"})
                    ELSE {"noconn"} :
            LET verdict ==
                  IF r # "ok" THEN r
                  ELSE IF e.message_id \in processed_ids THEN "dup"
                  ELSE IF ~ShouldProcessEmail(e) THEN "reject"
                  ELSE "accept"
            IN /\ log' = Append(log, <<"fetch", m, verdict>>)
               /\ faults' = FaultsAfter(r)
               /\ todo' = Tail(todo)
               /\ IF verdict \in {"accept", "reject"}
                  THEN cur' = m /\ pc' = "seen"
                  ELSE cur' = 0 /\ pc' = AfterMessage(Tail(todo))
    /\ UNCHANGED <<opvars, entry_stats, confvars, pmvars, stop_pc, selected,
                   saved_files, printed_count, interrupted, cfg, layout, seen,
                   deleted, expunged, imap_connection, processed_ids,
                   processed_others, running, stats, emails, idx,
                   base_processed, cycles, accepted_in, stop_done,
                   cycle_after_stop>>

\* check_new_emails, lines 264-282 and the handler at 304: fetch, parse,
\* duplicate check, filters
Fetch ==
    /\ pc = "fetch"
    /\ todo # <<>>
    /\ LET m == Head(todo)
           e == EmailMessage(m)
       IN \E r \in IF imap_connection = "auth"
                    THEN {"ok"} \cup MayFail({"bad"})
                    ELSE {"noconn"} :
            LET verdict ==
                  IF r # "ok" THEN r
                  ELSE IF e.message_id \in processed_ids THEN "dup"
                  ELSE IF ~ShouldProcessEmail(e) THEN "reject"
                  ELSE "accept"
            IN /\ log' = Append(log, <<"fetch", m, verdict>>)
               /\ faults' = FaultsAfter(r)
               /\ todo' = Tail(todo)
               /\ IF verdict = "accept"
                  THEN cur' = m /\ pc' = "seen"
                  ELSE cur' = 0 /\ pc' = AfterMessage(Tail(todo))
    /\ UNCHANGED <<opvars, entry_stats, confvars, pmvars, stop_pc, selected,
                   saved_files, printed_count, interrupted, cfg, layout, seen,
                   deleted, expunged, imap_connection, processed_ids,
                   processed_others, running, stats, emails, idx,
                   base_processed, cycles, accepted_in, stop_done,
                   cycle_after_stop>>

\* the outcomes of a store/expunge call on the connection: without a
\* connection the call raises before it reaches the server
CallOutcomes ==
    IF imap_connection = "auth" THEN {"ok"} \cup MayFail({"err"})
    ELSE {"noconn"}

\* StoreSeen without the store: the message is queued unmarked
StoreSeenSkipped ==
    /\ pc = "seen"
    /\ pc' = "deleted"
    /\ UNCHANGED <<opvars, entry_stats, confvars, pmvars, stop_pc, selected,
                   saved_files, printed_count, interrupted, cfg, faults,
                   layout, seen, deleted, expunged, imap_connection,
                   processed_ids, processed_others, running, stats, todo, cur,
                   emails, idx, log, base_processed, cycles, accepted_in,
                   stop_done, cycle_after_stop>>

\* check_new_emails, lines 283-288: mark as read before anything else
StoreSeen ==
    /\ pc = "seen"
    /\ IF cfg.mark_as_read
       THEN \E r \in CallOutcomes :
              /\ faults' = FaultsAfter(r)
              /\ log' = Append(log, <<"store_seen", cur, r>>)
              /\ seen' = IF r = "ok" THEN seen \cup {cur} ELSE seen
       ELSE UNCHANGED <<log, seen, faults>>
    /\ pc' = "deleted"
    /\ UNCHANGED <<opvars, entry_stats, confvars, pmvars, stop_pc, selected,
                   saved_files, printed_count, interrupted, cfg, layout,
                   deleted, expunged, imap_connection, processed_ids,
                   processed_others, running, stats, todo, cur, emails, idx,
                   base_processed, cycles, accepted_in, stop_done,
                   cycle_after_stop>>

\* a failing Deleted store that leaves the message out of the batch
StoreDeletedOrSkip ==
    /\ pc = "deleted"
    /\ \E r \in IF cfg.delete_after_print THEN CallOutcomes ELSE {"none"} :
         LET queued == r \in {"ok", "none"}
         IN /\ faults' = IF r = "none" THEN faults ELSE FaultsAfter(r)
            /\ log' = IF r = "none" THEN log
                      ELSE Append(log, <<"store_deleted", cur, r>>)
            /\ deleted' = IF r = "ok" THEN deleted \cup {cur} ELSE deleted
            /\ processed_ids' = IF queued
                                THEN processed_ids \cup {MessageId(cur)}
                                ELSE processed_ids
            /\ emails' = IF queued THEN Append(emails, cur) ELSE emails
            /\ accepted_in' = IF queued
                              THEN [accepted_in EXCEPT ![cur] = @ \cup {cycles}]
                              ELSE accepted_in
    /\ cur' = 0
    /\ pc' = AfterMessage(todo)
    /\ UNCHANGED <<opvars, entry_stats, confvars, pmvars, stop_pc, selected,
                   saved_files, printed_count, interrupted, cfg, layout, seen,
                   expunged, imap_connection, processed_others, running,
                   stats, todo, idx, base_processed, cycles, stop_done,
                   cycle_after_stop>>

\* check_new_emails, lines 290-302: flag for deletion, remember the id,
\* queue the message
StoreDeleted ==
    /\ pc = "deleted"
    /\ IF cfg.delete_after_print
       THEN \E r \in CallOutcomes :
              /\ faults' = FaultsAfter(r)
              /\ log' = Append(log, <<"store_deleted", cur, r>>)
              /\ deleted' = IF r = "ok" THEN deleted \cup {cur} ELSE deleted
       ELSE UNCHANGED <<log, deleted, faults>>
    /\ processed_ids' = processed_ids \cup {MessageId(cur)}
    /\ emails' = Append(emails, cur)
    /\ accepted_in' = [accepted_in EXCEPT ![cur] = @ \cup {cycles}]
    /\ cur' = 0
    /\ pc' = AfterMessage(todo)
    /\ UNCHANGED <<opvars, entry_stats, confvars, pmvars, stop_pc, selected,
                   saved_files, printed_count, interrupted, cfg, layout, seen,
                   expunged, imap_connection, processed_others, running,
                   stats, todo, idx, base_processed, cycles, stop_done,
                   cycle_after_stop>>

\* check_new_emails, lines 307-312: one expunge after the loop
Expunge ==
    /\ pc = "expunge"
    /\ IF cfg.delete_after_print
       THEN \E r \in CallOutcomes :
              /\ faults' = FaultsAfter(r)
              /\ log' = Append(log, <<"expunge", 0, r>>)
              /\ expunged' = IF r = "ok" THEN expunged \cup deleted
                              ELSE expunged
       ELSE UNCHANGED <<log, expunged, faults>>
    /\ pc' = "trim"
    /\ UNCHANGED <<opvars, entry_stats, confvars, pmvars, stop_pc, selected,
                   saved_files, printed_count, interrupted, cfg, layout, seen,
                   deleted, imap_connection, processed_ids, processed_others,
                   running, stats, todo, cur, emails, idx, base_processed,
                   cycles, accepted_in, stop_done, cycle_after_stop>>

\* the limit tested with >= LowWater * 3 instead of > HighWater
LimitProcessedIdsLate ==
    IF ProcessedLen >= LowWater * 3
    THEN { [ids |-> K, others |-> LowWater - Cardinality(K)] :
             K \in { S \in SUBSET processed_ids :
                       /\ Cardinality(S) <= LowWater
                       /\ LowWater - Cardinality(S) <= processed_others } }
    ELSE { [ids |-> processed_ids, others |-> processed_others] }

\* check_new_emails, lines 314-324: list(set)[-500:] keeps 500 ids in the
\* set's iteration order, which the string hashes decide: any 500 of them
LimitProcessedIds ==
    IF ProcessedLen > HighWater
    THEN { [ids |-> K, others |-> LowWater - Cardinality(K)] :
             K \in { S \in SUBSET processed_ids :
                       /\ Cardinality(S) <= LowWater
                       /\ LowWater - Cardinality(S) <= processed_others } }
    ELSE { [ids |-> processed_ids, others |-> processed_others] }

\* check_new_emails, lines 314-333 and run_check_loop, lines 384-388: limit
\* the id cache, return the batch; the loop calls the callback when the
\* batch is not empty
Trim ==
    /\ pc = "trim"
    /\ \E kept \in LimitProcessedIds :
         /\ processed_ids' = kept.ids
         /\ processed_others' = kept.others
    /\ IF emails # <<>>
       THEN pc' = "process" /\ idx' = 1
            /\ base_processed' = stats.emails_processed
       ELSE pc' = "idle" /\ UNCHANGED <<idx, base_processed>>
    /\ UNCHANGED <<opvars, entry_stats, confvars, pmvars, stop_pc, selected,
                   saved_files, printed_count, interrupted, cfg, faults,
                   layout, seen, deleted, expunged, imap_connection, running,
                   stats, todo, cur, emails, log, cycles, accepted_in,
                   stop_done, cycle_after_stop>>

\* ------------------------------------------------------------ file types
\* print_file, line 349: supported_formats
SupportedImageTypes ==
    {Type("image", "png"), Type("image", "jpeg"), Type("image", "jpg")}

\* the temporary files of one role that the print operation under way, or
\* the polling thread, has made and that are still on disk
MadeSoFar(role) ==
    {t \in tempfiles : t.role = role /\ t.made_by = prints + 1}

\* a file the program is about to make: tempfile gives every file and
\* directory a name of its own, so it is none of the files on disk. It is
\* known by its role, the print operation that made it and its rank among
\* the files of that role
TempFile(role) ==
    [role |-> role, made_by |-> prints + 1,
     nth |-> Cardinality(MadeSoFar(role)) + 1]

\* the file of that role made last, the one the code holds the name of
LastTempFile(role) ==
    [role |-> role, made_by |-> prints + 1,
     nth |-> Cardinality(MadeSoFar(role))]
NoTempFile == [role |-> "none", made_by |-> 0, nth |-> 0]

\* -------------------------------------------------------- orchestrator
\* Mail2PrinterService._should_print_content
ShouldPrintContent(e) ==
    LET has_text == Strip(e.text_content) # <<>>
        has_html == Strip(e.html_content) # <<>>
    IN (has_text /\ cfg.print_text_emails)
       \/ (has_html /\ cfg.print_html_emails)

\* the attachment branch taken only when there is no body to print
TakesAttachmentPathBodyFirst(e) ==
    cfg.print_attachments /\ e.attachments # <<>> /\ ~ShouldPrintContent(e)

\* _process_single_email, line 157: the attachment branch is taken
TakesAttachmentPath(e) == cfg.print_attachments /\ e.attachments # <<>>

\* the body branch taken only by an email without attachments
TakesBodyPathNoAttachments(e) ==
    e.attachments = <<>> /\ ShouldPrintContent(e)

\* _process_single_email, line 162: the body branch is taken
TakesBodyPath(e) == ~TakesAttachmentPath(e) /\ ShouldPrintContent(e)

\* print_file, print_html and print_text catch every exception and return
\* whether the submission succeeded
PrintResults == {"ok", "fail"}

\* _print_email_content, lines 214 and 234: the test made before each body
TriesHtml(e) == e.html_content # <<>> /\ cfg.print_html_emails
TriesText(e) == e.text_content # <<>> /\ cfg.print_text_emails

\* the text body submitted whatever became of the HTML
AfterHtmlAlwaysText(e, rh) == IF TriesText(e) THEN "text" ELSE "count"

\* _print_email_content, lines 227-234: a printed HTML body returns, after
\* any other outcome the text body is tried
AfterHtml(e, rh) ==
    IF rh = "ok" THEN "count"
    ELSE IF TriesText(e) THEN "text" ELSE "count"

\* the callback returning after one email, the rest of the batch left over
AfterEmailNextCycle(i) == "idle"

\* where _process_emails goes after the email at position i
AfterEmail(i) == IF i < Len(emails) THEN "process" ELSE "idle"

\* the except clause around the whole loop: an error ends the batch
OnProcessingErrorAbort(i) == [pc |-> "idle", idx |-> i + 1]

\* _process_emails, line 142: what the except clause does with the batch
OnProcessingError(i) == [pc |-> AfterEmail(i), idx |-> i + 1]

\* s without its i-th element
RemoveAt(s, i) == SubSeq(s, 1, i - 1) \o SubSeq(s, i + 1, Len(s))

\* save_attachments, lines 143-159: the files it returns; an attachment
\* that cannot be written is left out
SavedChoices(attachments) ==
    {attachments}
    \cup (IF faults < MaxFaults
          THEN {RemoveAt(attachments, i) : i \in 1..Len(attachments)}
          ELSE {})

\* the spooler gives a submission that succeeds the next job id; _print_file
\* records it in _active_jobs (line 629), _print_pdf_as_is and
\* _print_file_with_image_options do not
JobsAfter(r, recorded) ==
    [active |-> IF r = "ok" /\ recorded THEN active_jobs \cup {next_job}
                ELSE active_jobs,
     next |-> IF r = "ok" THEN next_job + 1 ELSE next_job]

\* print_file, lines 342-372: the file goes to _print_file
RecordsJob(ctype) == ctype # PdfType /\ ctype.major # "image"

\* how _image_to_pdf ends: the PDF is written; the image cannot be read or
\* the temporary file cannot be made; the writing of the PDF raises after
\* the temporary file has been made
ImageResults == {"ok", "error", "save_error"}

\* a file or directory is removed inside a try or a finally clause: it is
\* gone (TRUE), or the removal raises and it stays
RemovalChoices == {TRUE} \cup MayFail({FALSE})

\* _print_attachments, lines 269-278: print_file has returned or raised; a
\* failure is counted as it happens, and the loop goes on to the next file
FileReturned(r) ==
    /\ log' = Append(log, <<"print_file", emails[idx], r>>)
    /\ stats' = [stats EXCEPT !.print_jobs_failed =
                    IF r = "ok" THEN @ ELSE @ + 1]
    /\ printed_count' = IF r = "ok" THEN printed_count + 1
                        ELSE printed_count
    /\ saved_files' = Tail(saved_files)
    /\ pc' = IF Tail(saved_files) = <<>> THEN "attachment_wait"
             ELSE "attachment"

\* _process_emails line 139 with _process_single_email, lines 152-162: the
\* branch is chosen; on the attachment branch _print_attachments makes the
\* temporary directory and saves the attachments, lines 254-264. When the
\* saving raises the finally clause, lines 286-288, cleans up at once, and
\* the cleanup may raise in its turn and leave the directory
ProcessSingleEmail ==
    /\ pc = "process"
    /\ LET m == emails[idx]
           e == EmailMessage(m)
           entered == Append(log, <<"process", m, "">>)
       IN IF TakesAttachmentPath(e)
          THEN \/ \* the temporary directory cannot be made, or the saving
                  \* raises
                  \E removed \in RemovalChoices :
                    /\ tempfiles' = IF removed THEN tempfiles
                                    ELSE tempfiles \cup {TempFile("dir")}
                    /\ faults' = IF removed THEN faults ELSE faults + 1
                    /\ log' = Append(entered,
                                     <<"print_attachments", m, "raise">>)
                    /\ pc' = OnProcessingError(idx).pc
                    /\ idx' = OnProcessingError(idx).idx
                    /\ UNCHANGED saved_files
               \/ \E saved \in SavedChoices(e.attachments) :
                    /\ tempfiles' = tempfiles \cup {TempFile("dir")}
                    /\ log' = entered
                    /\ saved_files' = saved
                    /\ faults' = IF saved = e.attachments THEN faults
                                 ELSE faults + 1
                    /\ pc' = IF saved = <<>> THEN "attachment_wait"
                             ELSE "attachment"
                    /\ UNCHANGED idx
          ELSE /\ log' = entered
               /\ pc' = IF ~TakesBodyPath(e) THEN "count"
                        ELSE IF TriesHtml(e) THEN "html"
                        ELSE IF TriesText(e) THEN "text" ELSE "count"
               /\ UNCHANGED <<saved_files, faults, idx, tempfiles>>
    /\ printed_count' = 0
    /\ entry_stats' = stats
    /\ UNCHANGED <<confvars, pmvars, wait, call, cfg, layout, seen, deleted,
                   expunged, imap_connection, processed_ids, processed_others,
                   running, stats, todo, cur, emails, base_processed, cycles,
                   accepted_in, stop_done, cycle_after_stop, stop_pc,
                   selected, interrupted>>

\* _print_attachments, lines 266-278: one print_file call. A PDF and a file
\* that is no image are submitted and print_file returns. An image in a
\* supported format is converted first, print_file lines 354-355:
\* _image_to_pdf leaves the temporary PDF and sets _last_image_orientation,
\* or it returns None and print_file returns False
PrintAttachment ==
    /\ pc = "attachment"
    /\ LET f == Head(saved_files)
       IN IF f.ctype \in SupportedImageTypes
          THEN \E conv \in ImageResults :
                 /\ tempfiles' = IF conv = "error" THEN tempfiles
                                 ELSE tempfiles \cup {TempFile("image_pdf")}
                 /\ last_image_orientation' =
                       IF conv = "ok" THEN Portrait
                       ELSE last_image_orientation
                 /\ IF conv = "ok"
                    THEN /\ pc' = "attachment_image"
                         /\ UNCHANGED <<log, stats, printed_count,
                                        saved_files>>
                    ELSE FileReturned("fail")
                 /\ UNCHANGED <<active_jobs, next_job>>
          ELSE \E r \in PrintResults :
                 /\ FileReturned(r)
                 /\ active_jobs' = JobsAfter(r, RecordsJob(f.ctype)).active
                 /\ next_job' = JobsAfter(r, RecordsJob(f.ctype)).next
                 /\ UNCHANGED <<tempfiles, last_image_orientation>>
    /\ UNCHANGED <<confvars, pconf, cups_connection, ptrace, prints, wait,
                   call, cfg, layout, seen, deleted, expunged,
                   imap_connection, processed_ids, processed_others, running,
                   todo, cur, emails, idx, base_processed, cycles, faults,
                   accepted_in, stop_done, cycle_after_stop, stop_pc,
                   selected, interrupted, entry_stats>>

\* print_file, lines 356-372, with _print_file_with_image_options: the
\* converted image is submitted. After a submission print_file sleeps;
\* otherwise it removes the temporary PDF, or fails to and logs it, and
\* returns False
AttachmentImageSubmit ==
    /\ pc = "attachment_image"
    /\ \E r \in PrintResults :
         /\ active_jobs' = JobsAfter(r, FALSE).active
         /\ next_job' = JobsAfter(r, FALSE).next
         /\ IF r = "ok"
            THEN /\ pc' = "attachment_image_sleep"
                 /\ UNCHANGED <<tempfiles, faults, log, stats, printed_count,
                                saved_files>>
            ELSE \E removed \in RemovalChoices :
                   /\ tempfiles' = IF removed
                                   THEN tempfiles \ {LastTempFile("image_pdf")}
                                   ELSE tempfiles
                   /\ faults' = IF removed THEN faults ELSE faults + 1
                   /\ FileReturned("fail")
    /\ UNCHANGED <<confvars, pconf, cups_connection, last_image_orientation,
                   ptrace, prints, wait, call, cfg, layout, seen, deleted,
                   expunged, imap_connection, processed_ids, processed_others,
                   running, todo, cur, emails, idx, base_processed, cycles,
                   accepted_in, stop_done, cycle_after_stop, stop_pc,
                   selected, interrupted, entry_stats>>

\* print_file, lines 361-370: the sleep of 2 seconds is over, the temporary
\* PDF is removed, or the removal raises and is logged, and print_file
\* returns True
AttachmentImageSleep ==
    /\ pc = "attachment_image_sleep"
    /\ \E removed \in RemovalChoices :
         /\ tempfiles' = IF removed THEN tempfiles \ {LastTempFile("image_pdf")}
                         ELSE tempfiles
         /\ faults' = IF removed THEN faults ELSE faults + 1
    /\ FileReturned("ok")
    /\ UNCHANGED <<confvars, pmvars, wait, call, cfg, layout, seen, deleted,
                   expunged, imap_connection, processed_ids, processed_others,
                   running, todo, cur, emails, idx, base_processed, cycles,
                   accepted_in, stop_done, cycle_after_stop, stop_pc,
                   selected, interrupted, entry_stats>>

\* _print_attachments, lines 282-290 and _process_single_email, lines
\* 158-168: the wait and the cleanup. When the directory is removed the
\* email is counted as printed if printed_count > 0; when the cleanup raises
\* the directory stays and the exception leaves _process_single_email: the
\* email is counted neither as printed nor as processed
AttachmentWait ==
    /\ pc = "attachment_wait"
    /\ \E removed \in RemovalChoices :
         /\ faults' = IF removed THEN faults ELSE faults + 1
         /\ tempfiles' = IF removed THEN tempfiles \ {LastTempFile("dir")}
                         ELSE tempfiles
         /\ IF removed
            THEN /\ stats' = [stats EXCEPT !.emails_printed =
                                 IF printed_count > 0 THEN @ + 1 ELSE @]
                 /\ pc' = "count"
                 /\ UNCHANGED <<idx, log>>
            ELSE /\ log' = Append(log, <<"print_attachments", emails[idx],
                                         "raise">>)
                 /\ pc' = OnProcessingError(idx).pc
                 /\ idx' = OnProcessingError(idx).idx
                 /\ UNCHANGED stats
    /\ printed_count' = 0
    /\ UNCHANGED <<confvars, pmvars, wait, call, cfg, layout, seen, deleted,
                   expunged, imap_connection, processed_ids, processed_others,
                   running, todo, cur, emails, base_processed, cycles,
                   accepted_in, stop_done, cycle_after_stop, stop_pc,
                   selected, saved_files, interrupted, entry_stats>>

\* how the making of a temporary text or HTML file ends: the file is
\* written and closed, NamedTemporaryFile raises, or the write raises after
\* the file has been made
TempResults == {"ok", "no_file", "write_error"}

\* how the wkhtmltopdf command of _html_to_pdf ends, lines 685-711: it is
\* not installed (subprocess.run raises FileNotFoundError); it exits with 0
\* and has written the PDF; it fails without a PDF; it fails and leaves a
\* PDF behind; or it has returned and the os.unlink of line 700 raises,
\* with or without a PDF written: the HTML file stays and WeasyPrint is
\* tried
WkResults == {"missing", "ok", "failed", "failed_with_pdf", "unlink_error",
              "unlink_error_with_pdf"}

\* how the WeasyPrint part ends, lines 714-727: the import fails, the PDF
\* is written, or write_pdf raises after the temporary PDF has been made
WeasyResults == {"import_error", "ok", "error"}

\* the temporary file a print_text or print_html call of the polling thread
\* holds when it goes on to submit it
HoldingBody(temp) == [pc |-> "body", temp |-> temp]

\* print_html or print_text returns False to _print_email_content before
\* anything was submitted
BodyNotPrinted(op) == Append(log, <<op, emails[idx], "fail">>)

\* _print_email_content, line 227: print_html is called. Without
\* conversion, print_html, lines 281-283, writes the HTML to a temporary
\* file, and returns False when that raises (lines 299-301). With it,
\* _html_to_pdf, lines 679-681, writes the file for wkhtmltopdf, and goes on
\* to WeasyPrint when that raises (line 710)
PrintHtmlBody ==
    /\ pc = "html"
    /\ \E made \in TempResults :
         /\ tempfiles' = IF made = "no_file" THEN tempfiles
                         ELSE tempfiles \cup {TempFile("html")}
         /\ call' = IF made = "ok" /\ ~pconf.convert_html
                    THEN HoldingBody(TempFile("html")) ELSE NoCall
         /\ pc' = IF pconf.convert_html
                  THEN (IF made = "ok" THEN "html_convert" ELSE "html_weasy")
                  ELSE IF made = "ok" THEN "html_submit"
                  ELSE AfterHtml(EmailMessage(emails[idx]), "fail")
         /\ log' = IF made # "ok" /\ ~pconf.convert_html
                   THEN BodyNotPrinted("print_html") ELSE log
    /\ UNCHANGED <<wait, entry_stats, confvars, pconf, cups_connection,
                   last_image_orientation, ptrace, prints,
                   stop_pc, selected, saved_files, printed_count,
                   interrupted, cfg, faults, layout, seen,
                   deleted, expunged, imap_connection, processed_ids,
                   processed_others, running, todo, cur, emails, idx,
                   base_processed, cycles, accepted_in, stop_done,
                   cycle_after_stop, active_jobs, next_job, stats>>

\* _html_to_pdf, lines 699-711: the wkhtmltopdf command has ended. Line
\* 700 removes the HTML file when subprocess.run returned; the PDF is
\* returned after exit status 0, after anything else WeasyPrint is tried
HtmlConvert ==
    /\ pc = "html_convert"
    /\ \E wk \in WkResults :
         /\ tempfiles' =
               CASE wk \in {"missing", "unlink_error"} -> tempfiles
                 [] wk = "unlink_error_with_pdf" ->
                      tempfiles \cup {TempFile("wk_pdf")}
                 [] wk = "failed" -> tempfiles \ {LastTempFile("html")}
                 [] OTHER -> (tempfiles \ {LastTempFile("html")})
                             \cup {TempFile("wk_pdf")}
         /\ call' = IF wk = "ok" THEN HoldingBody(TempFile("wk_pdf"))
                    ELSE NoCall
         /\ pc' = IF wk = "ok" THEN "html_submit" ELSE "html_weasy"
    /\ UNCHANGED <<wait, entry_stats, confvars, pconf, cups_connection,
                   last_image_orientation, ptrace, prints,
                   stop_pc, selected, saved_files, printed_count,
                   interrupted, cfg, faults, layout, seen,
                   deleted, expunged, imap_connection, processed_ids,
                   processed_others, running, todo, cur, emails, idx,
                   base_processed, cycles, accepted_in, stop_done,
                   cycle_after_stop, active_jobs, next_job, stats, log>>

\* _html_to_pdf, lines 713-729, and print_html, line 263: WeasyPrint
\* writes the PDF to a temporary file of its own; without a PDF print_html
\* falls off its end and _print_email_content goes on to the text
HtmlFallback ==
    /\ pc = "html_weasy"
    /\ \E wp \in WeasyResults :
         /\ tempfiles' = IF wp = "import_error" THEN tempfiles
                         ELSE tempfiles \cup {TempFile("weasy_pdf")}
         /\ call' = IF wp = "ok" THEN HoldingBody(TempFile("weasy_pdf"))
                    ELSE NoCall
         /\ pc' = IF wp = "ok" THEN "html_submit"
                  ELSE AfterHtml(EmailMessage(emails[idx]), "fail")
         /\ log' = IF wp = "ok" THEN log ELSE BodyNotPrinted("print_html")
    /\ UNCHANGED <<wait, entry_stats, confvars, pconf, cups_connection,
                   last_image_orientation, ptrace, prints,
                   stop_pc, selected, saved_files, printed_count,
                   interrupted, cfg, faults, layout, seen,
                   deleted, expunged, imap_connection, processed_ids,
                   processed_others, running, todo, cur, emails, idx,
                   base_processed, cycles, accepted_in, stop_done,
                   cycle_after_stop, active_jobs, next_job, stats>>

\* print_html, lines 264 and 285, with _print_file: the temporary file is
\* submitted and the job recorded; print_html goes on to wait for the job,
\* or to sleep when nothing was submitted
HtmlSubmit ==
    /\ pc = "html_submit"
    /\ \E rh \in PrintResults :
         /\ active_jobs' = JobsAfter(rh, TRUE).active
         /\ next_job' = JobsAfter(rh, TRUE).next
         /\ call' = [pc |-> "body_wait", temp |-> call.temp, result |-> rh]
    /\ pc' = "html_wait"
    /\ UNCHANGED tempfiles
    /\ UNCHANGED <<wait, entry_stats, confvars, pconf, cups_connection,
                   last_image_orientation, ptrace, prints,
                   stop_pc, selected, saved_files, printed_count,
                   interrupted, cfg, faults, layout, seen,
                   deleted, expunged, imap_connection, processed_ids,
                   processed_others, running, todo, cur, emails, idx,
                   base_processed, cycles, accepted_in, stop_done,
                   cycle_after_stop, stats, log>>

\* print_html, lines 266-278 and 287-297, after the wait for the job or the
\* sleep: the temporary file is removed, or the removal raises and is
\* logged, and print_html returns whether the submission succeeded;
\* _print_email_content, lines 227-234, and _process_single_email, lines
\* 163-168, count the email that was printed
HtmlReturn ==
    /\ pc = "html_wait"
    /\ \E removed \in RemovalChoices :
         /\ tempfiles' = IF removed THEN tempfiles \ {call.temp}
                         ELSE tempfiles
         /\ faults' = IF removed THEN faults ELSE faults + 1
    /\ log' = Append(log, <<"print_html", emails[idx], call.result>>)
    /\ stats' = IF call.result = "ok"
                THEN [stats EXCEPT !.emails_printed = @ + 1] ELSE stats
    /\ pc' = AfterHtml(EmailMessage(emails[idx]), call.result)
    /\ call' = NoCall
    /\ UNCHANGED <<confvars, pmvars, wait, cfg, layout, seen, deleted,
                   expunged, imap_connection, processed_ids, processed_others,
                   running, todo, cur, emails, idx, base_processed, cycles,
                   accepted_in, stop_done, cycle_after_stop, stop_pc,
                   selected, saved_files, printed_count, interrupted,
                   entry_stats>>

\* _print_email_content, line 237: print_text is called. print_text, lines
\* 220-224: the text is written to a temporary file; when that raises
\* print_text returns False (lines 244-246)
PrintTextBody ==
    /\ pc = "text"
    /\ \E made \in TempResults :
         /\ tempfiles' = IF made = "no_file" THEN tempfiles
                         ELSE tempfiles \cup {TempFile("text")}
         /\ call' = IF made = "ok" THEN HoldingBody(TempFile("text"))
                    ELSE NoCall
         /\ pc' = IF made = "ok" THEN "text_submit" ELSE "count"
         /\ log' = IF made = "ok" THEN log ELSE BodyNotPrinted("print_text")
    /\ UNCHANGED <<wait, entry_stats, confvars, pconf, cups_connection,
                   last_image_orientation, ptrace, prints,
                   stop_pc, selected, saved_files, printed_count,
                   interrupted, cfg, faults, layout, seen,
                   deleted, expunged, imap_connection, processed_ids,
                   processed_others, running, todo, cur, emails, idx,
                   base_processed, cycles, accepted_in, stop_done,
                   cycle_after_stop, active_jobs, next_job, stats>>

\* print_text, line 227, with _print_file: the submission
TextSubmit ==
    /\ pc = "text_submit"
    /\ \E rt \in PrintResults :
         /\ active_jobs' = JobsAfter(rt, TRUE).active
         /\ next_job' = JobsAfter(rt, TRUE).next
         /\ call' = [pc |-> "body_wait", temp |-> call.temp, result |-> rt]
    /\ pc' = "text_wait"
    /\ UNCHANGED tempfiles
    /\ UNCHANGED <<wait, entry_stats, confvars, pconf, cups_connection,
                   last_image_orientation, ptrace, prints,
                   stop_pc, selected, saved_files, printed_count,
                   interrupted, cfg, faults, layout, seen,
                   deleted, expunged, imap_connection, processed_ids,
                   processed_others, running, todo, cur, emails, idx,
                   base_processed, cycles, accepted_in, stop_done,
                   cycle_after_stop, stats, log>>

\* print_text, lines 229-242, after the wait for the job or the sleep: the
\* temporary file is removed, or the removal raises and is logged, and
\* print_text returns whether the submission succeeded;
\* _print_email_content, line 237, and _process_single_email, lines
\* 163-168, count the email that was printed
TextReturn ==
    /\ pc = "text_wait"
    /\ \E removed \in RemovalChoices :
         /\ tempfiles' = IF removed THEN tempfiles \ {call.temp}
                         ELSE tempfiles
         /\ faults' = IF removed THEN faults ELSE faults + 1
    /\ log' = Append(log, <<"print_text", emails[idx], call.result>>)
    /\ stats' = IF call.result = "ok"
                THEN [stats EXCEPT !.emails_printed = @ + 1] ELSE stats
    /\ pc' = "count"
    /\ call' = NoCall
    /\ UNCHANGED <<confvars, pmvars, wait, cfg, layout, seen, deleted,
                   expunged, imap_connection, processed_ids, processed_others,
                   running, todo, cur, emails, idx, base_processed, cycles,
                   accepted_in, stop_done, cycle_after_stop, stop_pc,
                   selected, saved_files, printed_count, interrupted,
                   entry_stats>>

\* an email for which nothing was submitted is not counted
CountProcessedSkipNoop ==
    /\ pc = "count"
    /\ stats' = [stats EXCEPT !.emails_processed =
                    IF log[Len(log)][1] = "process" THEN @ ELSE @ + 1]
    /\ pc' = AfterEmail(idx)
    /\ idx' = idx + 1
    /\ UNCHANGED <<opvars, entry_stats, confvars, pmvars, stop_pc, selected,
                   saved_files, printed_count, interrupted, cfg, faults,
                   layout, seen, deleted, expunged, imap_connection,
                   processed_ids, processed_others, running, todo, cur,
                   emails, log, base_processed, cycles, accepted_in,
                   stop_done, cycle_after_stop>>

\* _process_emails, line 140: count the email that was processed
CountProcessed ==
    /\ pc = "count"
    /\ stats' = [stats EXCEPT !.emails_processed = @ + 1]
    /\ pc' = AfterEmail(idx)
    /\ idx' = idx + 1
    /\ UNCHANGED <<opvars, entry_stats, confvars, pmvars, stop_pc, selected,
                   saved_files, printed_count, interrupted, cfg, faults,
                   layout, seen, deleted, expunged, imap_connection,
                   processed_ids, processed_others, running, todo, cur,
                   emails, log, base_processed, cycles, accepted_in,
                   stop_done, cycle_after_stop>>

\* api.py get_stats, line 106: the copy of the counters the API thread
\* takes, at whatever point the polling thread has reached
GetStats == stats

\* Mail2PrinterService.get_status, lines 364-366: the 'stats' entry of the
\* dictionary it returns is the stats dictionary itself, not a copy, so
\* whoever reads the returned status sees the counters as they are at the
\* moment of the reading, whatever the polling thread has done since the
\* call
GetStatus == [stats |-> stats]

\* the positions of the polling thread inside the try of run_check_loop
InLoop == pc \in {"idle", "connect", "login", "select", "search", "handler",
                  "handler_logout", "fetch", "seen", "deleted", "expunge",
                  "trim", "process", "attachment", "attachment_wait", "html",
                  "html_convert", "html_weasy", "html_submit", "html_wait",
                  "text",
                  "text_submit", "text_wait", "count", "attachment_image",
                  "attachment_image_sleep"}

\* the positions inside the try of _print_attachments, lines 262-284
InPrintAttachments == {"attachment", "attachment_image",
                       "attachment_image_sleep", "attachment_wait"}

\* run_check_loop, lines 390-392: a KeyboardInterrupt raised anywhere
\* inside the try (the sleep, check_new_emails, the callback: their except
\* clauses catch Exception only) leaves the loop. On its way out it runs
\* the finally clauses it passes: that of _print_attachments, lines
\* 286-288, removes the temporary directory, and that of disconnect, line
\* 214, drops the connection when the interrupt comes inside the close()
\* or the logout() of the handler's disconnect
LoopInterrupted ==
    /\ InLoop
    /\ pc = "idle" \/ faults < MaxFaults
    /\ faults' = IF pc = "idle" THEN faults ELSE faults + 1
    /\ interrupted' = pc
    /\ tempfiles' = IF pc \in InPrintAttachments
                    THEN tempfiles \ {LastTempFile("dir")} ELSE tempfiles
    /\ \E dropped \in CASE pc = "handler" -> BOOLEAN
                        [] pc = "handler_logout" -> {TRUE}
                        [] OTHER -> {FALSE} :
         /\ imap_connection' = IF dropped THEN Disconnected
                               ELSE imap_connection
         /\ selected' = IF dropped THEN FALSE ELSE selected
    /\ pc' = "leave"
    /\ UNCHANGED <<confvars, pmvars, wait, call, cfg, layout, seen, deleted,
                   expunged, processed_ids, processed_others, running, stats,
                   todo, cur, emails, idx, log, base_processed, cycles,
                   accepted_in, stop_done, cycle_after_stop, stop_pc,
                   saved_files, printed_count, entry_stats>>

\* run_check_loop, line 397, with disconnect, lines 206-214: the loop
\* disconnects. With a mailbox selected the CLOSE is sent: the server
\* accepts it and the logout follows, or the call fails, the except clause
\* logs it and the connection is dropped without a logout; without a
\* mailbox selected close() raises and the connection is dropped at once
LeaveClose ==
    /\ pc = "leave"
    /\ \E accepted \in IF CloseAccepted THEN BOOLEAN ELSE {FALSE} :
         /\ expunged' = IF accepted THEN ExpungedByClose ELSE expunged
         /\ imap_connection' = IF accepted THEN AfterClose ELSE Disconnected
         /\ pc' = IF accepted THEN "leave_logout" ELSE "finally"
    /\ selected' = FALSE
    /\ UNCHANGED <<confvars, pmvars, opvars, cfg, layout, seen, deleted,
                   processed_ids, processed_others, running, stats, todo, cur,
                   emails, idx, log, base_processed, cycles, faults,
                   accepted_in, stop_done, cycle_after_stop, stop_pc,
                   saved_files, printed_count, interrupted, entry_stats>>

\* disconnect, line 214, after the logout: the connection is dropped
LeaveDrop ==
    /\ pc = "leave_logout"
    /\ imap_connection' = Disconnected
    /\ selected' = FALSE
    /\ pc' = "finally"
    /\ UNCHANGED <<opvars, entry_stats, confvars, pmvars, stop_pc,
                   saved_files, printed_count, cfg, layout, seen, deleted,
                   processed_ids, processed_others, stats, todo, cur, emails,
                   idx, log, base_processed, cycles, accepted_in,
                   cycle_after_stop, interrupted, faults, expunged, running,
                   stop_done>>

\* run, lines 105-106: the finally clause calls stop(), which clears
\* running and finds the connection dropped by the loop; run() returns
FinallyStop ==
    /\ pc = "finally"
    /\ running' = FALSE
    /\ stop_done' = TRUE
    /\ pc' = "exited"
    /\ UNCHANGED <<opvars, entry_stats, confvars, pmvars, stop_pc,
                   saved_files, printed_count, cfg, layout, seen, deleted,
                   processed_ids, processed_others, stats, todo, cur, emails,
                   idx, log, base_processed, cycles, accepted_in,
                   cycle_after_stop, interrupted, faults, expunged,
                   imap_connection, selected>>

\* leaving the loop, step by step
LeaveLoop == LoopInterrupted \/ LeaveClose \/ LeaveDrop \/ FinallyStop

\* --------------------------------------------------------------- stop path
\* the process is alive: run() has neither raised nor returned (main.py
\* then leaves the process) and the process was not killed
Alive == pc \notin {"failed", "exited", "killed"}

\* Mail2PrinterService.stop, called by the signal handler (service.py:56) or
\* by the API's stop_service (api.py:281), line 77: running is cleared
Stop ==
    /\ Alive
    /\ stop_pc = "none"
    /\ faults < MaxFaults
    /\ faults' = faults + 1
    /\ running' = FALSE
    /\ stop_pc' = "disconnect"
    /\ UNCHANGED <<opvars, entry_stats, confvars, pmvars, selected,
                   saved_files, printed_count, interrupted, cfg, layout, seen,
                   deleted, expunged, imap_connection, processed_ids,
                   processed_others, stats, pc, todo, cur, emails, idx, log,
                   base_processed, cycles, accepted_in, stop_done,
                   cycle_after_stop>>

\* disconnect, lines 206-214, called by stop(): the test of the
\* connection, then close(). With a mailbox selected the CLOSE is sent: the
\* server accepts it and logout() follows, the connection object staying in
\* place, logged out; or the call fails, the except clause logs it and the
\* connection is dropped. Without a mailbox selected close() raises and the
\* connection is dropped at once
StopClose ==
    /\ Alive
    /\ stop_pc = "disconnect"
    /\ IF imap_connection = "none"
       THEN /\ stop_pc' = "none"
            /\ stop_done' = TRUE
            /\ UNCHANGED <<expunged, imap_connection, selected>>
       ELSE \E accepted \in IF CloseAccepted THEN BOOLEAN ELSE {FALSE} :
              /\ stop_pc' = IF accepted THEN "drop" ELSE "none"
              /\ expunged' = IF accepted THEN ExpungedByClose ELSE expunged
              /\ imap_connection' = IF accepted THEN AfterClose
                                    ELSE Disconnected
              /\ selected' = FALSE
              /\ stop_done' = IF accepted THEN stop_done ELSE TRUE
    /\ UNCHANGED <<confvars, pmvars, opvars, cfg, layout, seen, deleted,
                   processed_ids, processed_others, running, stats, pc, todo,
                   cur, emails, idx, log, base_processed, cycles, faults,
                   accepted_in, cycle_after_stop, saved_files, printed_count,
                   interrupted, entry_stats>>

\* disconnect, line 214: the connection is dropped; stop() returns
StopDrop ==
    /\ Alive
    /\ stop_pc = "drop"
    /\ imap_connection' = Disconnected
    /\ selected' = FALSE
    /\ stop_done' = TRUE
    /\ stop_pc' = "none"
    /\ UNCHANGED <<opvars, entry_stats, confvars, pmvars, saved_files,
                   printed_count, interrupted, cfg, faults, layout, seen,
                   deleted, expunged, processed_ids, processed_others,
                   running, stats, pc, todo, cur, emails, idx, log,
                   base_processed, cycles, accepted_in, cycle_after_stop>>

\* api.py restart_service, lines 252-253: SIGHUP is sent to the own process,
\* which has no handler for it: the process ends where it is, stop() is not
\* called and nothing is sent to the mail server
RestartService ==
    /\ Alive
    /\ faults < MaxFaults
    /\ faults' = faults + 1
    /\ pc' = "killed"
    /\ UNCHANGED <<opvars, entry_stats, confvars, pmvars, stop_pc, selected,
                   saved_files,
                   printed_count, interrupted, cfg, layout, seen, deleted,
                   expunged, imap_connection, processed_ids,
                   processed_others, running, stats, todo, cur, emails, idx,
                   log, base_processed, cycles, accepted_in, stop_done,
                   cycle_after_stop>>

\* ------------------------------------------------------------------- Next
CheckNewEmails ==
    \/ Connect \/ Login \/ Select \/ Search \/ HandlerClose \/ HandlerDrop
    \/ Fetch \/ StoreSeen \/ StoreDeleted \/ Expunge \/ Trim

PrintBody ==
    \/ PrintHtmlBody \/ HtmlConvert \/ HtmlFallback \/ HtmlSubmit
    \/ HtmlReturn
    \/ PrintTextBody \/ TextSubmit \/ TextReturn

PollStep ==
    \/ Start \/ CycleStart \/ CheckNewEmails \/ ProcessSingleEmail
    \/ PrintAttachment \/ AttachmentImageSubmit \/ AttachmentImageSleep
    \/ AttachmentWait \/ PrintBody \/ CountProcessed

StopStep == Stop \/ StopClose \/ StopDrop

Next == PollStep \/ LeaveLoop \/ StopStep \/ RestartService

Spec == Init /\ [][Next]_vars

\* the same program after it has run long enough to fill the id cache with
\* the ids of messages that have left the mailbox
InitWarm ==
    /\ InitCommon
    /\ cfg = CfgDefault
    /\ processed_others \in {HighWater - 1, HighWater}

SpecWarm == InitWarm /\ [][Next]_vars

\* ------------------------------------------------------ printer manager
\* PrinterManager._get_orientation_code: the word is looked up in lower
\* case
OrientationCode(orientation) ==
    LET o == StrLower(orientation)
    IN CASE o = Portrait -> "3"
         [] o = Landscape -> "4"
         [] o = ReversePortrait -> "5"
         [] o = ReverseLandscape -> "6"
         [] OTHER -> "3"

\* PrinterManager._get_quality_code: the word is looked up in lower case
QualityCode(quality) ==
    LET q == StrLower(quality)
    IN CASE q = Draft -> "3"
         [] q = Normal -> "4"
         [] q = High -> "5"
         [] OTHER -> "4"

\* the keys of default_options, in the order the dict holds them
OptionKeys == <<"media", "orientation-requested", "print-quality", "sides",
                "print-color-mode">>

\* PrinterManager._setup_print_options: default_options
DefaultOptions ==
    ("media" :> pconf.paper_size)
    @@ ("orientation-requested" :> OrientationCode(pconf.orientation))
    @@ ("print-quality" :> QualityCode(pconf.quality))
    @@ ("sides" :> IF pconf.duplex THEN "two-sided-long-edge"
                   ELSE "one-sided")
    @@ ("print-color-mode" :> IF pconf.color THEN "color" ELSE "monochrome")

\* the PDF options left as configured
PdfOptionsAsConfigured == DefaultOptions

\* _print_pdf_as_is, lines 393-395: the options given to printFile
PdfOptions == [DefaultOptions EXCEPT !["orientation-requested"] = "3"]

\* _print_pdf_as_is, lines 406-412: the -o arguments of the lp command
LpPdfOptions == << <<"media", "A4">>, <<"orientation-requested", "3">> >>

\* the image options with the configured paper size
ImageOptionsConfiguredMedia(lio) ==
    IF lio # NoOrientation
    THEN [DefaultOptions EXCEPT !["orientation-requested"] =
                                    OrientationCode(lio)]
    ELSE DefaultOptions

\* _print_file_with_image_options, lines 548-559: the options of an image
\* job, lio being _last_image_orientation when the job is built
ImageOptions(lio) ==
    LET forced == [DefaultOptions EXCEPT !["media"] = "A4"]
    IN IF lio # NoOrientation
       THEN [forced EXCEPT !["orientation-requested"] = OrientationCode(lio)]
       ELSE forced

\* lines 573-577 and 634-638: one -o key=value argument per option, in the
\* order of the dict; an argument is the pair <<key, value>>
LpOptions(opts) ==
    [i \in DOMAIN OptionKeys |-> <<OptionKeys[i], opts[OptionKeys[i]]>>]

\* the larger of two numbers
Max(a, b) == IF a >= b THEN a ELSE b

\* PrinterManager._estimate_page_count: a file is the content type
\* mimetypes gives its name, its embedded page count (PDF) and its number
\* of lines (text); ctype is the content type the caller passes
EstimatePageCount(f, ctype) ==
    IF ctype = PdfType
    THEN IF pconf.pdfinfo THEN f.pages ELSE 1
    ELSE IF ctype.major = "text"
    THEN Max(1, f.lines \div 60)
    ELSE 1

\* the files handed to print_file: PDFs of one and three pages, images in
\* supported and unsupported formats, text files, and a file whose name
\* tells mimetypes nothing
Files ==
    { [ctype |-> PdfType, pages |-> 1, lines |-> 0],
      [ctype |-> PdfType, pages |-> 3, lines |-> 0],
      [ctype |-> Type("image", "png"), pages |-> 0, lines |-> 0],
      [ctype |-> Type("image", "jpeg"), pages |-> 0, lines |-> 0],
      [ctype |-> Type("image", "bmp"), pages |-> 0, lines |-> 0],
      [ctype |-> Type("text", "plain"), pages |-> 0, lines |-> 200],
      [ctype |-> Type("text", "xml"), pages |-> 0, lines |-> 200],
      [ctype |-> NoType, pages |-> 0, lines |-> 0] }

\* the bodies handed to print_text and print_html: the number of lines of
\* the text and the number of pages the HTML renders to
Bodies == { [pages |-> 1, lines |-> 59], [pages |-> 3, lines |-> 200] }

\* _image_to_pdf: the single-page PDF an image is converted to
ConvertedPdf == [ctype |-> PdfType, pages |-> 1, lines |-> 0]

\* how a submission ends: the spooler's printFile returns a job id or
\* raises; lp exits with 0 and prints the bare line "request id is
\* Office-1" ("job"), or the line the lp command of CUPS prints, "request
\* id is Office-1 (1 file(s))" ("unread"), or no request id ("nojob"), or
\* it fails
SubmitResults ==
    IF cups_connection THEN {"job", "raise"}
    ELSE {"job", "unread", "nojob", "fail"}

\* the submissions the spooler has taken: printFile returned, lp exited
\* with 0
Accepted == {"job", "unread", "nojob"}

\* the submissions for which the spooler made a job
JobMade == {"job", "unread"}

\* what a submission meets: get_default_printer finds no printer (the
\* submission is not made, r is not used), or it finds one and the
\* submission ends in one of the ways above
SubmitChoices ==
    {[printer |-> FALSE, r |-> "raise"]}
    \cup [printer : {TRUE}, r : SubmitResults]

\* the job states of the spooler that end a wait
JOB_STATE_CANCELED == 7
JOB_STATE_ABORTED == 8
JOB_STATE_COMPLETED == 9

\* how wait_for_job_completion's polling ends: the job has left the job
\* list, the job list shows it in one of the three states above, the
\* timeout passes while it is in another state, or getJobs raises
WaitResults ==
    [kind : {"gone", "timeout", "error"}, state : {0}]
    \cup [kind : {"state"},
          state : {JOB_STATE_CANCELED, JOB_STATE_ABORTED,
                   JOB_STATE_COMPLETED}]

\* no job list is polled
NoWaitResult == [kind |-> "none", state |-> 0]

\* a printFile call or an lp command
SubmitEvent(route, f, ctype, options, r) ==
    [op |-> "submit", via |-> IF cups_connection THEN "cups" ELSE "lp",
     route |-> route, file |-> f, ctype |-> ctype, options |-> options,
     outcome |-> r, job |-> IF r \in JobMade THEN next_job ELSE 0]

\* the page limit of lines 538-543 and 613-618 rejects the file
OverPageLimit(f, ctype) ==
    pconf.max_pages > 0 /\ EstimatePageCount(f, ctype) > pconf.max_pages

\* a submission that made no call
NotSubmitted == [events |-> <<>>, ok |-> FALSE, job |-> 0]

\* PrinterManager._print_pdf_as_is: no page limit, the job id is dropped
PrintPdfAsIs(f, printer, r) ==
    IF ~printer THEN NotSubmitted
    ELSE [events |-> << SubmitEvent("pdf", f, PdfType,
                           IF cups_connection THEN PdfOptions
                           ELSE LpPdfOptions, r) >>,
          ok |-> r \in Accepted,
          job |-> 0]

\* PrinterManager._print_file_with_image_options
PrintFileWithImageOptions(f, printer, r, lio) ==
    IF ~printer \/ OverPageLimit(f, PdfType) THEN NotSubmitted
    ELSE [events |-> << SubmitEvent("image", f, PdfType,
                           IF cups_connection THEN ImageOptions(lio)
                           ELSE LpOptions(ImageOptions(lio)), r) >>,
          ok |-> r \in Accepted,
          job |-> 0]

\* PrinterManager._print_file: returns (job_id, success). Lines 643-653:
\* the job id is what follows the last "-" of lp's line; when int() raises
\* on it the except clause passes, the job is not recorded and job_id is
\* None (0 here)
PrintFileInternal(f, ctype, printer, r) ==
    IF ~printer \/ OverPageLimit(f, ctype) THEN NotSubmitted
    ELSE [events |-> << SubmitEvent("file", f, ctype,
                           IF cups_connection THEN DefaultOptions
                           ELSE LpOptions(DefaultOptions), r) >>,
          ok |-> r \in Accepted,
          job |-> IF r = "job" THEN next_job ELSE 0]

\* wait_for_job_completion: polls the spooler's job list, or sleeps when
\* there is no spooler connection
WaitForJobCompletion(job, w) ==
    IF cups_connection
    THEN [op |-> "poll", job |-> job, outcome |-> w.kind,
          state |-> w.state,
          result |-> w.kind = "gone"
                     \/ (w.kind = "state"
                         /\ w.state \in {JOB_STATE_CANCELED,
                                         JOB_STATE_ABORTED,
                                         JOB_STATE_COMPLETED})]
    ELSE [op |-> "sleep"]

\* print_text and print_html after _print_file: wait for the job when there
\* is one, sleep otherwise, then delete the temporary file
WaitAndCleanup(sub, f, w) ==
    << IF sub.ok /\ sub.job # 0 THEN WaitForJobCompletion(sub.job, w)
       ELSE [op |-> "sleep"],
       [op |-> "unlink", file |-> f] >>

\* what print_text and print_html return when the wait is made
PrintResultWaitedFor(sub, waited) ==
    sub.ok /\ (waited[1].op = "poll" => waited[1].result)

\* what print_text and print_html return: the success of _print_file
PrintResult(sub, waited) == sub.ok

\* the entry and the exit of a print operation in the trace
Called(name, f) == [op |-> "call", name |-> name, file |-> f]
Returned(b) == [op |-> "return", result |-> b]

\* the spooler has given a job id to one of the submissions
JobsGiven(events) ==
    Cardinality({i \in DOMAIN events : events[i].op = "submit"
                                        /\ events[i].outcome \in JobMade})

\* a print operation returns: its last event, the operation counted
Return(events) ==
    /\ ptrace' = ptrace \o events
    /\ call' = NoCall
    /\ prints' = prints + 1

\* a print operation that returns in the step that calls it
CallAndReturn(name, f, events) ==
    /\ ptrace' = << Called(name, f) >> \o events
    /\ call' = NoCall
    /\ prints' = prints + 1

\* the spooler's job counter and _active_jobs after a submission
Submitted(sub) ==
    /\ active_jobs' = IF sub.job # 0 THEN active_jobs \cup {sub.job}
                      ELSE active_jobs
    /\ next_job' = next_job + JobsGiven(sub.events)

\* PrinterManager.print_file, lines 323-375. A PDF and a file that is no
\* image are submitted and print_file returns; an image in a supported
\* format is converted first: _image_to_pdf leaves the temporary PDF and
\* sets _last_image_orientation, lines 507-516
PrintFile ==
    /\ call = NoCall
    /\ prints < MaxPrints
    /\ \E f \in Files :
         \/ \* line 334: the file does not exist; line 351: the format
            \* of the image is not supported
            /\ CallAndReturn("print_file", f, << Returned(FALSE) >>)
            /\ UNCHANGED <<last_image_orientation, active_jobs, next_job,
                           tempfiles>>
         \/ \* line 334: Path.exists() raises (a name longer than the
            \* file system takes), outside any try
            /\ CallAndReturn("print_file", f, << [op |-> "raise"] >>)
            /\ UNCHANGED <<last_image_orientation, active_jobs, next_job,
                           tempfiles>>
         \/ /\ f.ctype = PdfType
            /\ \E c \in SubmitChoices :
                 LET pdf == PrintPdfAsIs(f, c.printer, c.r)
                 IN /\ CallAndReturn("print_file", f,
                                     pdf.events \o << Returned(pdf.ok) >>)
                    /\ Submitted(pdf)
            /\ UNCHANGED <<last_image_orientation, tempfiles>>
         \/ /\ f.ctype \in SupportedImageTypes
            /\ \E conv \in ImageResults :
                 /\ IF conv = "ok"
                    THEN /\ ptrace' = << Called("print_file", f) >>
                         /\ call' = [pc |-> "image"]
                         /\ last_image_orientation' = Portrait
                         /\ UNCHANGED prints
                    ELSE /\ CallAndReturn("print_file", f,
                                          << Returned(FALSE) >>)
                         /\ UNCHANGED last_image_orientation
                 /\ tempfiles' = IF conv = "error" THEN tempfiles
                                 ELSE tempfiles \cup {TempFile("image_pdf")}
            /\ UNCHANGED <<active_jobs, next_job>>
         \/ /\ f.ctype # PdfType /\ f.ctype.major # "image"
            /\ \E c \in SubmitChoices :
                 LET sub == PrintFileInternal(f, f.ctype, c.printer, c.r)
                 IN /\ CallAndReturn("print_file", f,
                                     sub.events \o << Returned(sub.ok) >>)
                    /\ Submitted(sub)
            /\ UNCHANGED <<last_image_orientation, tempfiles>>
    /\ UNCHANGED <<wait, confvars, pollvars, pconf, cups_connection>>

\* print_file, line 358, with _print_file_with_image_options: the
\* converted image is submitted, with _last_image_orientation as it is
\* then. After a submission print_file sleeps; otherwise it removes the
\* temporary PDF, or fails to and logs it (lines 365-368), and returns
\* False
SubmitImage ==
    /\ call.pc = "image"
    /\ \E c \in SubmitChoices :
         LET sub == PrintFileWithImageOptions(ConvertedPdf, c.printer, c.r,
                                              last_image_orientation)
         IN /\ Submitted(sub)
            /\ IF sub.ok
               THEN /\ ptrace' = ptrace \o sub.events
                    /\ call' = [pc |-> "image_sleep"]
                    /\ UNCHANGED <<prints, tempfiles>>
               ELSE /\ Return(sub.events
                              \o << [op |-> "unlink", file |-> ConvertedPdf],
                                    Returned(FALSE) >>)
                    /\ \E removed \in BOOLEAN :
                         tempfiles' = IF removed
                                      THEN tempfiles \ {LastTempFile("image_pdf")}
                                      ELSE tempfiles
    /\ UNCHANGED <<wait, confvars, pollvars, pconf, cups_connection, last_image_orientation>>

\* print_file, lines 361-370: the sleep is over, the temporary PDF is
\* removed, or the removal raises and is logged, and print_file returns
\* True
ImageSleep ==
    /\ call.pc = "image_sleep"
    /\ Return(<< [op |-> "sleep"],
                 [op |-> "unlink", file |-> ConvertedPdf],
                 Returned(TRUE) >>)
    /\ \E removed \in BOOLEAN :
         tempfiles' = IF removed THEN tempfiles \ {LastTempFile("image_pdf")}
                      ELSE tempfiles
    /\ UNCHANGED <<wait, confvars, pollvars, pconf, cups_connection, last_image_orientation, active_jobs,
                   next_job>>

\* PrinterManager.print_file_old, lines 303-321: every file goes to
\* _print_file, whose pair (job_id, success) is returned; job_id 0 is None
PrintFileOld ==
    /\ call = NoCall
    /\ prints < MaxPrints
    /\ \E f \in Files :
         \/ \* line 314: the file does not exist
            /\ CallAndReturn("print_file_old", f, << Returned(FALSE) >>)
            /\ UNCHANGED <<active_jobs, next_job>>
         \/ \* line 314: Path.exists() raises, outside any try
            /\ CallAndReturn("print_file_old", f, << [op |-> "raise"] >>)
            /\ UNCHANGED <<active_jobs, next_job>>
         \/ \E c \in SubmitChoices :
              LET sub == PrintFileInternal(f, f.ctype, c.printer, c.r)
              IN /\ CallAndReturn("print_file_old", f,
                       sub.events
                       \o << Returned([job_id |-> sub.job,
                                       success |-> sub.ok]) >>)
                 /\ Submitted(sub)
    /\ UNCHANGED <<wait, confvars, pollvars, pconf, cups_connection, last_image_orientation, tempfiles>>

\* the temporary file of a print_text or print_html call is on disk: what
\* the call holds when it goes on to submit it
Holding(name, temp, f, ctype) ==
    [pc |-> "body", name |-> name, temp |-> temp, file |-> f,
     ctype |-> ctype]

\* print_text, lines 220-224, and print_html, lines 281-283: the text is
\* written to a temporary file; when that fails the operation returns
\* False, and the file stays if it had been made
MakeTempFile(name, role, f, ctype, made) ==
    /\ IF made = "ok"
       THEN /\ ptrace' = << Called(name, f) >>
            /\ call' = Holding(name, TempFile(role), f, ctype)
            /\ UNCHANGED prints
       ELSE CallAndReturn(name, f, << Returned(FALSE) >>)
    /\ tempfiles' = IF made = "no_file" THEN tempfiles
                    ELSE tempfiles \cup {TempFile(role)}

\* PrinterManager.print_text, lines 209-224
PrintText ==
    /\ call = NoCall
    /\ prints < MaxPrints
    /\ \E b \in Bodies, made \in TempResults :
         MakeTempFile("print_text", "text",
                      [ctype |-> Type("text", "plain"), pages |-> 0,
                       lines |-> b.lines],
                      Type("text", "plain"), made)
    /\ UNCHANGED <<wait, confvars, pollvars, pconf, cups_connection, last_image_orientation, active_jobs,
                   next_job>>

\* PrinterManager.print_html, lines 248-283: without conversion the HTML
\* is written to a temporary file and printed as text/html; with it,
\* _html_to_pdf, lines 674-681, writes the HTML to a temporary file for
\* wkhtmltopdf, and goes on to WeasyPrint when that raises
PrintHtml ==
    /\ call = NoCall
    /\ prints < MaxPrints
    /\ \E b \in Bodies, made \in TempResults :
         LET html == [ctype |-> Type("text", "html"), pages |-> 0,
                      lines |-> b.lines]
         IN IF ~pconf.convert_html
            THEN MakeTempFile("print_html", "html", html,
                              Type("text", "html"), made)
            ELSE /\ ptrace' = << Called("print_html", html) >>
                 /\ call' = [pc |-> IF made = "ok" THEN "wk" ELSE "weasy",
                             pages |-> b.pages]
                 /\ tempfiles' = IF made = "no_file" THEN tempfiles
                                 ELSE tempfiles \cup {TempFile("html")}
                 /\ UNCHANGED prints
    /\ UNCHANGED <<wait, confvars, pollvars, pconf, cups_connection, last_image_orientation, active_jobs,
                   next_job>>

\* the PDF _html_to_pdf made, as print_html holds it
HoldingPdf(role) ==
    Holding("print_html", TempFile(role),
            [ctype |-> PdfType, pages |-> call.pages, lines |-> 0], PdfType)

\* _html_to_pdf, lines 699-711: the wkhtmltopdf command has ended. Line
\* 700 removes the HTML file when subprocess.run returned; the PDF is
\* returned after exit status 0, after anything else WeasyPrint is tried
HtmlWk ==
    /\ call.pc = "wk"
    /\ \E wk \in WkResults :
         /\ tempfiles' =
               CASE wk \in {"missing", "unlink_error"} -> tempfiles
                 [] wk = "unlink_error_with_pdf" ->
                      tempfiles \cup {TempFile("wk_pdf")}
                 [] wk = "failed" -> tempfiles \ {LastTempFile("html")}
                 [] OTHER -> (tempfiles \ {LastTempFile("html")})
                             \cup {TempFile("wk_pdf")}
         /\ call' = IF wk = "ok" THEN HoldingPdf("wk_pdf")
                    ELSE [call EXCEPT !.pc = "weasy"]
    /\ UNCHANGED <<wait, confvars, pollvars, pconf, cups_connection, last_image_orientation, active_jobs,
                   next_job, ptrace, prints>>

\* _html_to_pdf, lines 713-729, and print_html, line 263: WeasyPrint
\* writes the PDF to a temporary file of its own; without a PDF print_html
\* falls off its end (None, shown as False)
HtmlWeasy ==
    /\ call.pc = "weasy"
    /\ \E wp \in WeasyResults :
         /\ tempfiles' = IF wp = "import_error" THEN tempfiles
                         ELSE tempfiles \cup {TempFile("weasy_pdf")}
         /\ IF wp = "ok"
            THEN /\ call' = HoldingPdf("weasy_pdf")
                 /\ UNCHANGED <<ptrace, prints>>
            ELSE Return(<< Returned(FALSE) >>)
    /\ UNCHANGED <<wait, confvars, pollvars, pconf, cups_connection, last_image_orientation, active_jobs,
                   next_job>>

\* print_text, line 227, and print_html, lines 264 and 285, with
\* _print_file: the temporary file is submitted; the job is recorded
\* before the operation waits for it
SubmitBody ==
    /\ call.pc = "body"
    /\ \E c \in SubmitChoices :
         LET sub == PrintFileInternal(call.file, call.ctype, c.printer, c.r)
         IN /\ ptrace' = ptrace \o sub.events
            /\ Submitted(sub)
            /\ call' = [pc |-> "body_wait", name |-> call.name,
                        temp |-> call.temp, file |-> call.file,
                        sub |-> [sub EXCEPT !.events = <<>>]]
    /\ UNCHANGED <<wait, confvars, pollvars, pconf, cups_connection, last_image_orientation, tempfiles,
                   prints>>

\* print_text, lines 229-242, and print_html, lines 266-278 and 287-297:
\* the wait for the job or the sleep is over, the temporary file is
\* removed, or the removal raises and is logged, and the operation returns
WaitBody ==
    /\ call.pc = "body_wait"
    /\ \E w \in IF cups_connection /\ call.sub.ok /\ call.sub.job # 0
                THEN WaitResults ELSE {NoWaitResult} :
         LET waited == WaitAndCleanup(call.sub, call.file, w)
         IN Return(waited \o << Returned(PrintResult(call.sub, waited)) >>)
    /\ \E removed \in BOOLEAN :
         tempfiles' = IF removed THEN tempfiles \ {call.temp} ELSE tempfiles
    /\ UNCHANGED <<wait, confvars, pollvars, pconf, cups_connection, last_image_orientation, active_jobs,
                   next_job>>

\* the printer manager alone, under every explored configuration, with and
\* without a spooler connection
InitPrinter ==
    /\ InitEngine
    /\ ServiceReady
    /\ cfg = CfgDefault /\ layout = 0 /\ processed_others = 0
    /\ pconf \in PrinterConfigs
    /\ cups_connection \in BOOLEAN
    /\ PrinterManagerInit

NextPrinter ==
    \/ PrintFile \/ SubmitImage \/ ImageSleep \/ PrintFileOld
    \/ PrintText \/ PrintHtml \/ HtmlWk \/ HtmlWeasy
    \/ SubmitBody \/ WaitBody

SpecPrinter == InitPrinter /\ [][NextPrinter]_vars

\* ------------------------------------------- _print_attachments in full
\* service.py:20-22
BASE_WAIT_TIME == 5
WAIT_PER_ATTACHMENT == 2
MAX_WAIT_TIME == 30

\* the largest number of attachments an email carries here: enough for the
\* wait to reach MAX_WAIT_TIME
MaxAttachments == 14

Min(a, b) == IF a < b THEN a ELSE b

\* the wait without its upper limit
WaitTimeUncapped(printed) ==
    BASE_WAIT_TIME + (printed * WAIT_PER_ATTACHMENT)

\* _print_attachments, line 282: the seconds slept before the cleanup
WaitTime(printed) ==
    Min(BASE_WAIT_TIME + (printed * WAIT_PER_ATTACHMENT),
        MAX_WAIT_TIME)

\* the _print_attachments calls followed, and the longest list of
\* attachments whose files and print results are taken in every order
MaxAttachmentCalls == 1
MaxMixedAttachments == 2

\* a cleanup made only when the function returns
FinallyCleanupOnReturn(exit, removed) ==
    IF exit = "return" THEN << [op |-> "cleanup", removed |-> removed] >>
    ELSE <<>>

\* _print_attachments, lines 286-288: the finally clause, whether the try
\* block is left by "return" or by "save_raise" (save_attachments raises);
\* cleanup() removes the directory or raises and leaves it
FinallyCleanup(exit, removed) ==
    << [op |-> "cleanup", removed |-> removed] >>

\* the files the attachments are saved as: a PDF, an image, a text file
AttachmentFiles ==
    { [ctype |-> PdfType, pages |-> 1, lines |-> 0],
      [ctype |-> Type("image", "png"), pages |-> 0, lines |-> 0],
      [ctype |-> Type("text", "plain"), pages |-> 0, lines |-> 200] }

\* what becomes of one attachment: save_attachments writes it or leaves it
\* out; print_file raises, or _image_to_pdf ends as conv says, the
\* submission meets c, and the temporary PDF of an image is removed or not
Fate(f) ==
    [file |-> f, written |-> TRUE, raised |-> FALSE, conv |-> "none",
     c |-> [printer |-> FALSE, r |-> "raise"], unlinked |-> TRUE]

Fates(f) ==
    {[Fate(f) EXCEPT !.written = FALSE], [Fate(f) EXCEPT !.raised = TRUE]}
    \cup (IF f.ctype \in SupportedImageTypes
          THEN {[Fate(f) EXCEPT !.conv = v] : v \in ImageResults \ {"ok"}}
               \cup {[Fate(f) EXCEPT !.conv = "ok", !.c = c, !.unlinked = u] :
                       c \in SubmitChoices, u \in BOOLEAN}
          ELSE {[Fate(f) EXCEPT !.c = c] : c \in SubmitChoices})

\* what print_file does for the saved files of a long list, in order: it
\* returns True, returns False, or raises
FileResults(saved, printed, raised) ==
    [i \in 1..saved |->
        LET pdf == Fate([ctype |-> PdfType, pages |-> 1, lines |-> 0])
        IN IF i <= printed
           THEN [pdf EXCEPT !.c = [printer |-> TRUE, r |-> "job"]]
           ELSE IF i <= saved - raised
           THEN [pdf EXCEPT !.c = [printer |-> TRUE, r |-> "raise"]]
           ELSE [pdf EXCEPT !.raised = TRUE]]

\* the sequence in the opposite order
Reversed(seq) == [i \in 1..Len(seq) |-> seq[Len(seq) + 1 - i]]

\* the attachments of the emails and what becomes of each: up to
\* MaxMixedAttachments attachments in every way, and longer lists of PDFs
\* that are printed, fail and raise in blocks, in both orders, the last
\* attachment written or left out
AttachmentFates ==
    UNION {[1..n -> UNION {Fates(f) : f \in AttachmentFiles}] :
             n \in 1..MaxMixedAttachments}
    \cup UNION { UNION { IF p + r > n THEN {}
                         ELSE { FileResults(n, p, r),
                                Reversed(FileResults(n, p, r)),
                                [FileResults(n, p, r)
                                   EXCEPT ![n].written = FALSE] } :
                         p \in 0..n, r \in 0..n } :
                 n \in (MaxMixedAttachments + 1)..MaxAttachments }

\* the entries of fates that save_attachments wrote
RECURSIVE Written(_)
Written(fates) ==
    IF fates = <<>> THEN <<>>
    ELSE (IF Head(fates).written THEN <<Head(fates)>> ELSE <<>>)
         \o Written(Tail(fates))

\* Mail2PrinterService._print_attachments, lines 254-261, for an email
\* whose attachments meet the fates chosen: without attachments it returns
\* False; TemporaryDirectory() makes the directory or raises
PrintAttachments ==
    /\ call = NoCall
    /\ prints < MaxAttachmentCalls
    /\ printed_count' = 0
    /\ \/ \* line 254: nothing to print
          /\ CallAndReturn("_print_attachments", 0, << Returned(FALSE) >>)
          /\ UNCHANGED tempfiles
       \/ \E fates \in AttachmentFates :
            \/ \* line 261, before the try: no directory is made
               /\ CallAndReturn("_print_attachments", Len(fates),
                                << [op |-> "raise"] >>)
               /\ UNCHANGED tempfiles
            \/ /\ ptrace' = << Called("_print_attachments", Len(fates)),
                               [op |-> "mkdtemp"] >>
               /\ call' = [pc |-> "save", fates |-> fates, i |-> 1]
               /\ tempfiles' = tempfiles \cup {TempFile("dir")}
               /\ UNCHANGED prints
    /\ UNCHANGED <<wait, entry_stats, confvars, stop_pc, selected, saved_files, interrupted, cfg, layout, seen,
                   deleted, expunged, imap_connection, processed_ids,
                   processed_others, running, pc, todo, cur, emails, idx, log,
                   base_processed, cycles, faults, accepted_in, stop_done,
                   cycle_after_stop, pconf, cups_connection,
                   last_image_orientation, active_jobs, next_job, stats>>

\* _print_attachments, line 264: save_attachments returns the files it
\* wrote, or raises and the finally clause is entered
SaveAttachmentFiles ==
    /\ call.pc = "save"
    /\ \/ /\ ptrace' = Append(ptrace, [op |-> "save_raise"])
          /\ call' = [pc |-> "cleanup", exit |-> "save_raise"]
       \/ LET saved == Written(call.fates)
          IN /\ ptrace' = Append(ptrace,
                                 [op |-> "save", saved |-> Len(saved)])
             /\ call' = [pc |-> IF saved = <<>> THEN "sleep" ELSE "files",
                         fates |-> saved, i |-> 1]
    /\ UNCHANGED <<wait, entry_stats, confvars, stop_pc, selected, saved_files, interrupted, cfg, layout, seen,
                   deleted, expunged, imap_connection, processed_ids,
                   processed_others, running, pc, todo, cur, emails, idx, log,
                   base_processed, cycles, faults, accepted_in, stop_done,
                   cycle_after_stop, pconf, cups_connection,
                   last_image_orientation, active_jobs, next_job, stats,
                   printed_count, tempfiles, prints>>

\* _print_attachments, lines 269-278: print_file has ended with result r
\* ("ok": True, "fail": False, "raise": an exception); a failure is
\* counted as it happens, and the loop goes on to the next file
FilePrinted(events, r) ==
    /\ ptrace' = ptrace \o events \o << [op |-> "print_file", result |-> r] >>
    /\ printed_count' = IF r = "ok" THEN printed_count + 1
                        ELSE printed_count
    /\ stats' = [stats EXCEPT !.print_jobs_failed =
                    IF r = "ok" THEN @ ELSE @ + 1]
    /\ call' = [pc |-> IF call.i = Len(call.fates) THEN "sleep" ELSE "files",
                fates |-> call.fates, i |-> call.i + 1]

\* _print_attachments, lines 266-278, with print_file, lines 334-375: the
\* next saved file is handed to print_file. A PDF goes to _print_pdf_as_is
\* and a file that is no image to _print_file, and print_file returns; an
\* image is converted first: _image_to_pdf leaves the temporary PDF and
\* sets _last_image_orientation
PrintOneAttachment ==
    /\ call.pc = "files"
    /\ LET e == call.fates[call.i]
           f == e.file
       IN IF e.raised
          THEN /\ FilePrinted(<<>>, "raise")
               /\ UNCHANGED <<last_image_orientation, active_jobs, next_job,
                              tempfiles>>
          ELSE IF f.ctype \in SupportedImageTypes
          THEN /\ IF e.conv = "ok"
                  THEN /\ call' = [call EXCEPT !.pc = "file_image"]
                       /\ last_image_orientation' = Portrait
                       /\ UNCHANGED <<ptrace, printed_count, stats>>
                  ELSE /\ FilePrinted(<<>>, "fail")
                       /\ UNCHANGED last_image_orientation
               /\ tempfiles' = IF e.conv = "error" THEN tempfiles
                               ELSE tempfiles \cup {TempFile("image_pdf")}
               /\ UNCHANGED <<active_jobs, next_job>>
          ELSE LET sub == IF f.ctype = PdfType
                          THEN PrintPdfAsIs(f, e.c.printer, e.c.r)
                          ELSE PrintFileInternal(f, f.ctype, e.c.printer,
                                                 e.c.r)
               IN /\ FilePrinted(sub.events, IF sub.ok THEN "ok" ELSE "fail")
                  /\ Submitted(sub)
                  /\ UNCHANGED <<last_image_orientation, tempfiles>>
    /\ UNCHANGED <<wait, entry_stats, confvars, stop_pc, selected, saved_files, interrupted, cfg, layout, seen,
                   deleted, expunged, imap_connection, processed_ids,
                   processed_others, running, pc, todo, cur, emails, idx, log,
                   base_processed, cycles, faults, accepted_in, stop_done,
                   cycle_after_stop, pconf, cups_connection, prints>>

\* print_file, lines 358-372, within _print_attachments: the converted
\* image is submitted; after a submission print_file sleeps, otherwise it
\* removes the temporary PDF, or fails to, and returns False
SubmitImageAttachment ==
    /\ call.pc = "file_image"
    /\ LET e == call.fates[call.i]
           sub == PrintFileWithImageOptions(ConvertedPdf, e.c.printer, e.c.r,
                                            last_image_orientation)
       IN /\ Submitted(sub)
          /\ IF sub.ok
             THEN /\ ptrace' = ptrace \o sub.events
                  /\ call' = [call EXCEPT !.pc = "file_image_sleep"]
                  /\ UNCHANGED <<printed_count, stats, tempfiles>>
             ELSE /\ FilePrinted(sub.events
                                 \o << [op |-> "unlink",
                                        file |-> ConvertedPdf,
                                        removed |-> e.unlinked] >>,
                                 "fail")
                  /\ tempfiles' = IF e.unlinked
                                  THEN tempfiles \ {LastTempFile("image_pdf")}
                                  ELSE tempfiles
    /\ UNCHANGED <<wait, entry_stats, confvars, stop_pc, selected, saved_files, interrupted, cfg, layout, seen,
                   deleted, expunged, imap_connection, processed_ids,
                   processed_others, running, pc, todo, cur, emails, idx, log,
                   base_processed, cycles, faults, accepted_in, stop_done,
                   cycle_after_stop, pconf, cups_connection, prints,
                   last_image_orientation>>

\* print_file, lines 361-370, within _print_attachments: the two seconds
\* are over, the temporary PDF is removed or stays, print_file returns True
ImageAttachmentSleep ==
    /\ call.pc = "file_image_sleep"
    /\ LET e == call.fates[call.i]
       IN /\ FilePrinted(<< [op |-> "image_sleep", seconds |-> 2],
                            [op |-> "unlink", file |-> ConvertedPdf,
                             removed |-> e.unlinked] >>,
                         "ok")
          /\ tempfiles' = IF e.unlinked
                          THEN tempfiles \ {LastTempFile("image_pdf")}
                          ELSE tempfiles
    /\ UNCHANGED <<wait, entry_stats, confvars, stop_pc, selected, saved_files, interrupted, cfg, layout, seen,
                   deleted, expunged, imap_connection, processed_ids,
                   processed_others, running, pc, todo, cur, emails, idx, log,
                   base_processed, cycles, faults, accepted_in, stop_done,
                   cycle_after_stop, pconf, cups_connection, prints,
                   last_image_orientation, active_jobs, next_job>>

\* _print_attachments, lines 282-284: the wait for the spooler
SleepBeforeCleanup ==
    /\ call.pc = "sleep"
    /\ ptrace' = Append(ptrace, [op |-> "sleep",
                                 seconds |-> WaitTime(printed_count)])
    /\ call' = [pc |-> "cleanup", exit |-> "return"]
    /\ UNCHANGED <<wait, entry_stats, confvars, stop_pc, selected, saved_files, interrupted, cfg, layout, seen,
                   deleted, expunged, imap_connection, processed_ids,
                   processed_others, running, pc, todo, cur, emails, idx, log,
                   base_processed, cycles, faults, accepted_in, stop_done,
                   cycle_after_stop, pconf, cups_connection, prints,
                   last_image_orientation, active_jobs, next_job, stats,
                   printed_count, tempfiles>>

\* _print_attachments, lines 286-290: the finally clause, then the return
\* of printed_count > 0; the exception of save_attachments goes on to the
\* caller, and so does one that cleanup() raises
CleanupAndReturn ==
    /\ call.pc = "cleanup"
    /\ \E removed \in BOOLEAN :
         /\ Return(FinallyCleanup(call.exit, removed)
                   \o << IF call.exit = "return" /\ removed
                         THEN Returned(printed_count > 0)
                         ELSE [op |-> "raise"] >>)
         /\ tempfiles' = IF removed THEN tempfiles \ {LastTempFile("dir")}
                         ELSE tempfiles
    /\ UNCHANGED <<wait, entry_stats, confvars, stop_pc, selected, saved_files, interrupted, cfg, layout, seen,
                   deleted, expunged, imap_connection, processed_ids,
                   processed_others, running, pc, todo, cur, emails, idx, log,
                   base_processed, cycles, faults, accepted_in, stop_done,
                   cycle_after_stop, pconf, cups_connection,
                   last_image_orientation, active_jobs, next_job, stats,
                   printed_count>>

\* _print_attachments alone, for the attachments and fates above
NextAttachments ==
    \/ PrintAttachments \/ SaveAttachmentFiles \/ PrintOneAttachment
    \/ SubmitImageAttachment \/ ImageAttachmentSleep
    \/ SleepBeforeCleanup \/ CleanupAndReturn

InitAttachments ==
    /\ InitCommon
    /\ cfg = CfgDefault /\ layout = 0 /\ processed_others = 0

SpecAttachments == InitAttachments /\ [][NextAttachments]_vars

\* ---------------------------------------------------------- _image_to_pdf
\* _image_to_pdf, lines 451-452: the A4 page in points
A4_WIDTH_PT == 595
A4_HEIGHT_PT == 842

\* twice margin_pt (28.35), in tenths of a point
TwoMarginsTenths == 567

\* lines 462-463 and 473-474: the available width and height in tenths of
\* a point, with the margins and without
Available(margins) ==
    IF margins
    THEN [w |-> 10 * A4_WIDTH_PT - TwoMarginsTenths,
          h |-> 10 * A4_HEIGHT_PT - TwoMarginsTenths]
    ELSE [w |-> 10 * A4_WIDTH_PT, h |-> 10 * A4_HEIGHT_PT]

\* lines 466-468 and 475-477: min(scale_x, scale_y) as a fraction
ScaleFactor(w, h, a) ==
    IF a.w * h <= a.h * w THEN [num |-> a.w, den |-> 10 * w]
    ELSE [num |-> a.h, den |-> 10 * h]

\* line 471, scale_factor < 0.1 on floating point numbers: the margins are
\* kept (TRUE) or dropped (FALSE); a quotient that is exactly 0.1 may be
\* computed just below it
MarginChoices(w, h) ==
    LET s == ScaleFactor(w, h, Available(TRUE))
    IN IF 10 * s.num < s.den THEN {FALSE}
       ELSE IF 10 * s.num = s.den THEN {TRUE, FALSE}
       ELSE {TRUE}

\* a rounding to the next integer above
IntOfRoundedUp(a, b) == {(a + b - 1) \div b}

\* lines 481-482, int(orig * scale_factor) on floating point numbers: the
\* integer part of a / b; a product that is exactly an integer may be
\* computed just below it
IntOf(a, b) == IF a % b = 0 THEN {(a \div b) - 1, a \div b} ELSE {a \div b}

\* the image sizes handed to _image_to_pdf
ImageWidths == {1, 7, 10, 538, 595, 1000, 4000, 5383, 5384, 6000, 10000}
ImageHeights == {1, 10, 40, 785, 842, 3000, 7853, 7854, 10000}

\* PrinterManager._image_to_pdf for an image of w x h pixels; the path
\* it returns is shown as True, None as False
ImageToPdf ==
    /\ prints < MaxPrints
    /\ \E w \in ImageWidths, h \in ImageHeights, readable \in BOOLEAN,
          temp \in TempResults :
         IF ~readable
         THEN \* Image.open raises
              /\ ptrace' = << Called("_image_to_pdf", <<w, h>>),
                              Returned(FALSE) >>
              /\ UNCHANGED <<last_image_orientation, tempfiles>>
         ELSE \E margins \in MarginChoices(w, h) :
                LET a == Available(margins)
                    s == ScaleFactor(w, h, a)
                IN \E fw \in IntOf(w * s.num, s.den),
                      fh \in IntOf(h * s.num, s.den) :
                     LET layout_ev ==
                           [op |-> "layout", w |-> w, h |-> h,
                            margins |-> margins, scale |-> s,
                            final_width |-> fw, final_height |-> fh]
                         \* lines 497-501: the resized image is pasted
                         paste_ev ==
                           [op |-> "paste", width |-> fw, height |-> fh,
                            x_pos |-> (A4_WIDTH_PT - fw) \div 2,
                            y_pos |-> (A4_HEIGHT_PT - fh) \div 2]
                     IN IF fw = 0 \/ fh = 0
                        THEN \* line 491: resize to an empty size raises
                             /\ ptrace' = << Called("_image_to_pdf",
                                                    <<w, h>>),
                                             layout_ev, Returned(FALSE) >>
                             /\ UNCHANGED <<last_image_orientation,
                                            tempfiles>>
                        ELSE \* lines 507-516: the temporary PDF is made
                             \* and written; the orientation is stored
                             \* after the writing
                             /\ ptrace' = << Called("_image_to_pdf",
                                                    <<w, h>>),
                                             layout_ev, paste_ev,
                                             Returned(temp = "ok") >>
                             /\ tempfiles' =
                                   IF temp = "no_file" THEN tempfiles
                                   ELSE tempfiles
                                          \cup {TempFile("image_pdf")}
                             /\ last_image_orientation' =
                                   IF temp = "ok" THEN Portrait
                                   ELSE last_image_orientation
    /\ prints' = prints + 1
    /\ UNCHANGED <<wait, call, confvars, pollvars, pconf, cups_connection,
                   active_jobs, next_job>>

NextImage == ImageToPdf

\* _image_to_pdf alone, over the image sizes above
InitImage ==
    /\ InitCommon
    /\ cfg = CfgDefault /\ layout = 0 /\ processed_others = 0

SpecImage == InitImage /\ [][NextImage]_vars

\* ------------------------------------------------ _preprocess_html_for_pdf
\* HTML is a sequence of characters. The largest number of tags in it:
MaxHtmlPieces == 2

Quotes == {Ord("\""), Ord("'")}

\* the other quote character
OtherQuote(q) == IF q = Ord("'") THEN Ord("\"") ELSE Ord("'")

\* a matching that compares the characters as they are
FoldIdentity(c) == c

\* the (?i) flag of the pattern, line 745: the letter of the pattern that
\* the character c is matched by. These are the letter itself, its capital
\* and, for i and s, the characters re.IGNORECASE takes for the same
\* letter: capital I with dot above, dotless i, long s
Fold(c) ==
    IF c \in {Ord("S"), Ord("R"), Ord("C"), Ord("H"), Ord("E"), Ord("F"),
              Ord("I"), Ord("D")}
    THEN c + 32
    ELSE IF c \in {CapitalIWithDot, DotlessI} THEN Ord("i")
    ELSE IF c = LongS THEN Ord("s")
    ELSE c

\* the characters of html from position i on match the literal lit
MatchLit(html, i, lit) ==
    /\ i + Len(lit) - 1 <= Len(html)
    /\ \A k \in 1..Len(lit) : Fold(html[i + k - 1]) = lit[k]

\* [^"']*["']: the position of the first quote character from k on, or 0
FirstQuote(html, k) ==
    LET Q == {j \in k..Len(html) : html[j] \in Quotes}
    IN IF Q = {} THEN 0 ELSE CHOOSE j \in Q : \A j2 \in Q : j <= j2

\* cid_pattern, line 745, matched at position i: the characters of group 1
\* and the position of the last character of the match (0: no match)
MatchAt(html, i) ==
    LET n == IF MatchLit(html, i, Codes(<<"s", "r", "c">>)) THEN 3
             ELSE IF MatchLit(html, i, Codes(<<"h", "r", "e", "f">>)) THEN 4
             ELSE 0
        closing == FirstQuote(html, i + n + 6)
    IN IF /\ n # 0
          /\ MatchLit(html, i + n, Codes(<<"=">>))
          /\ i + n + 1 <= Len(html)
          /\ html[i + n + 1] \in Quotes
          /\ MatchLit(html, i + n + 2, Codes(<<"c", "i", "d", ":">>))
          /\ closing # 0
       THEN [group |-> SubSeq(html, i, i + n - 1), last |-> closing]
       ELSE [group |-> <<>>, last |-> 0]

\* the two literals of replace_cid, lines 751 and 754
SrcPlaceholder ==
    Codes(<<"s", "r", "c", "=", "\"", "d", "a", "t", "a", ":", "i", "m", "a", "g",
            "e", "/", "p", "n", "g", ";", "b", "a", "s", "e", "6", "4", ",", "i",
            "V", "B", "O", "R", "w", "0", "K", "G", "g", "o", "A", "A", "A", "A",
            "N", "S", "U", "h", "E", "U", "g", "A", "A", "A", "A", "E", "A", "A",
            "A", "A", "B", "C", "A", "Y", "A", "A", "A", "A", "f", "F", "c", "S",
            "J", "A", "A", "A", "A", "D", "U", "l", "E", "Q", "V", "R", "4", "2",
            "m", "N", "k", "Y", "P", "h", "f", "D", "w", "A", "C", "h", "w", "G",
            "A", "6", "0", "e", "6", "k", "g", "A", "A", "A", "A", "B", "J", "R",
            "U", "5", "E", "r", "k", "J", "g", "g", "g", "=", "=", "\"", " ", "a",
            "l", "t", "=", "\"", "[", "E", "m", "b", "e", "d", "d", "e", "d", " ",
            "I", "m", "a", "g", "e", "]", "\"">>)

HrefPlaceholder ==
    Codes(<<"h", "r", "e", "f", "=", "\"", "#", "\"", " ", "t", "i", "t", "l", "e",
            "=", "\"", "[", "E", "m", "b", "e", "d", "d", "e", "d", " ", "C", "o",
            "n", "t", "e", "n", "t", "]", "\"">>)

\* replace_cid, lines 747-754: group 1 in lower case decides; a name that
\* is not src after str.lower() gets the href literal
ReplaceCid(group) ==
    IF StrLower(group) = Codes(<<"s", "r", "c">>) THEN SrcPlaceholder
    ELSE HrefPlaceholder

\* re.sub(cid_pattern, replace_cid, html) from position i on: the leftmost
\* matches, one after the other, are replaced
RECURSIVE Sub(_, _)
Sub(html, i) ==
    IF i > Len(html) THEN <<>>
    ELSE LET m == MatchAt(html, i)
         IN IF m.last # 0 THEN ReplaceCid(m.group) \o Sub(html, m.last + 1)
            ELSE <<html[i]>> \o Sub(html, i + 1)

\* PrinterManager._preprocess_html_for_pdf
PreprocessHtmlForPdf(html) == Sub(html, 1)

\* the tags the HTML is made of: one attribute each, with the spelling of
\* its name, what stands between name and value, the quote and the value
Spellings ==
    { [attr |-> "src", name |-> Codes(<<"s", "r", "c">>)],
      [attr |-> "src", name |-> Codes(<<"S", "r", "C">>)],
      [attr |-> "href", name |-> Codes(<<"h", "r", "e", "f">>)],
      [attr |-> "href", name |-> Codes(<<"H", "R", "E", "F">>)],
      [attr |-> "alt", name |-> Codes(<<"a", "l", "t">>)] }

AttrValues ==
    { [cid |-> TRUE, value |-> Codes(<<"c", "i", "d", ":", "a">>)],
      [cid |-> TRUE, value |-> Codes(<<"C", "I", "D", ":", "b">>)],
      [cid |-> FALSE, value |-> Codes(<<"h", "t", "t", "p", ":", "a">>)] }

\* name=quote value quote, the value without a quote character
RegularPieces ==
    { [attr |-> sp.attr, name |-> sp.name, eq |-> Codes(<<"=">>), q |-> q,
       cid |-> v.cid, value |-> v.value, form |-> "regular"] :
      sp \in Spellings, q \in Quotes, v \in AttrValues }

\* white space around the equals sign, and a value that holds the other
\* quote character
IrregularPieces ==
    { [attr |-> "src", name |-> Codes(<<"s", "r", "c">>),
       eq |-> Codes(<<" ", "=", " ">>), q |-> Ord("\""), cid |-> TRUE,
       value |-> Codes(<<"c", "i", "d", ":", "a">>), form |-> "spaced"],
      [attr |-> "href", name |-> Codes(<<"h", "r", "e", "f">>),
       eq |-> Codes(<<"=", " ">>), q |-> Ord("'"), cid |-> TRUE,
       value |-> Codes(<<"c", "i", "d", ":", "a">>), form |-> "spaced"],
      [attr |-> "src", name |-> Codes(<<"s", "r", "c">>),
       eq |-> Codes(<<"=">>), q |-> Ord("\""), cid |-> TRUE,
       value |-> Codes(<<"c", "i", "d", ":", "a">>)
                 \o <<OtherQuote(Ord("\""))>> \o Codes(<<"b">>),
       form |-> "inner_quote"] }

\* a name or a value written with one of the three characters that
\* re.IGNORECASE takes for s or i: an attribute that is named with a long s
\* and so is neither src nor href, and values that start with c, dotless i
\* or capital I with dot above, d, colon and so do not start with cid:
FoldedPieces ==
    { [attr |-> "long_s_rc", name |-> <<LongS>> \o Codes(<<"r", "c">>),
       eq |-> Codes(<<"=">>), q |-> Ord("\""), cid |-> TRUE,
       value |-> Codes(<<"c", "i", "d", ":", "a">>), form |-> "long_s"],
      [attr |-> "src", name |-> Codes(<<"s", "r", "c">>),
       eq |-> Codes(<<"=">>), q |-> Ord("'"), cid |-> FALSE,
       value |-> Codes(<<"c">>) \o <<DotlessI>> \o Codes(<<"d", ":", "a">>),
       form |-> "other_i"],
      [attr |-> "href", name |-> Codes(<<"h", "r", "e", "f">>),
       eq |-> Codes(<<"=">>), q |-> Ord("\""), cid |-> FALSE,
       value |-> Codes(<<"C">>) \o <<CapitalIWithDot>>
                 \o Codes(<<"D", ":", "a">>),
       form |-> "other_i"] }

Pieces == RegularPieces \cup IrregularPieces \cup FoldedPieces

\* the characters of a tag around what stands for its attribute
Tag(inner) == Codes(<<"<", "i", " ">>) \o inner \o Codes(<<">">>)

\* the characters of a piece
Render(p) == Tag(p.name \o p.eq \o <<p.q>> \o p.value \o <<p.q>>)

\* the HTML documents handed to _preprocess_html_for_pdf
HtmlInputs == UNION {[1..n -> Pieces] : n \in 0..MaxHtmlPieces}

\* _preprocess_html_for_pdf is called on the document in the trace
PreprocessHtml ==
    /\ Len(ptrace) = 1
    /\ ptrace[1].name = "_preprocess_html_for_pdf"
    /\ LET html == Flatten([k \in DOMAIN ptrace[1].file |->
                                Render(ptrace[1].file[k])])
       IN ptrace' = Append(ptrace,
                           [op |-> "return", html |-> html,
                            result |-> PreprocessHtmlForPdf(html)])
    /\ prints' = prints + 1
    /\ UNCHANGED <<opvars, confvars, pollvars, pconf, cups_connection,
                   last_image_orientation, active_jobs, next_job>>

NextHtml == PreprocessHtml

\* _preprocess_html_for_pdf alone, over the documents above
InitHtml ==
    /\ InitEngine
    /\ ServiceReady
    /\ cfg = CfgDefault /\ layout = 0 /\ processed_others = 0
    /\ pconf = PConfDefault
    /\ cups_connection = TRUE
    /\ last_image_orientation = NoOrientation
    /\ active_jobs = {}
    /\ next_job = 1
    /\ prints = 0
    /\ \E doc \in HtmlInputs :
         ptrace = << Called("_preprocess_html_for_pdf", doc) >>

SpecHtml == InitHtml /\ [][NextHtml]_vars

\* ---------------------------------------------- wait_for_job_completion
\* Times are in tenths of a second.
\* the longest a getJobs call takes
MaxQueryTenths == 2

\* line 870: time.sleep(0.5)
POLL_SLEEP_TENTHS == 5
\* line 851: min(timeout, 5)
NO_SPOOLER_WAIT == 5

JOB_STATE_PENDING == 3
JOB_STATE_PROCESSING == 5

\* the timeout argument, in seconds
WaitTimeouts == {0, 1, 2}

\* what one getJobs call shows of the job: it is not in the list, it is in
\* the list with a state, or the call raises
PollResults ==
    [kind : {"gone", "error"}, state : {0}]
    \cup [kind : {"state"},
          state : {JOB_STATE_PENDING, JOB_STATE_PROCESSING,
                   JOB_STATE_CANCELED, JOB_STATE_ABORTED,
                   JOB_STATE_COMPLETED}]

\* the wait ended by a completed job only
JobFinishedCompletedOnly(o) ==
    o.kind = "gone" \/ (o.kind = "state" /\ o.state = JOB_STATE_COMPLETED)

\* lines 858-867: the poll ends the wait
JobFinished(o) ==
    \/ o.kind = "gone"
    \/ o.kind = "state" /\ o.state \in {JOB_STATE_CANCELED, JOB_STATE_ABORTED,
                                        JOB_STATE_COMPLETED}

\* lines 849-854: the call; without a spooler connection it sleeps
\* min(timeout, 5) seconds and returns
WaitCall ==
    /\ wait.pc = "none"
    /\ \E t \in WaitTimeouts :
         wait' = IF ~cups_connection
                 THEN [wait EXCEPT !.pc = "returned", !.job_id = 1,
                                   !.timeout = t,
                                   !.now = @ + Min(t, NO_SPOOLER_WAIT) * 10]
                 ELSE [wait EXCEPT !.pc = "test", !.job_id = 1,
                                   !.timeout = t, !.start_time = wait.now]
    /\ UNCHANGED <<confvars, pollvars, pmvars, tempfiles, call>>

\* line 855: the loop test; lines 876-877 when it fails
WaitLoopTest ==
    /\ wait.pc = "test"
    /\ wait' = IF wait.now - wait.start_time < wait.timeout * 10
               THEN [wait EXCEPT !.pc = "query"]
               ELSE [wait EXCEPT !.pc = "returned"]
    /\ UNCHANGED <<confvars, pollvars, pmvars, tempfiles, call>>

\* lines 856-874: one status query, taking d tenths; the job gone or
\* finished returns, an exception leaves the loop and returns, any other
\* state sleeps and goes back to the loop test
WaitPoll ==
    /\ wait.pc = "query"
    /\ \E d \in 0..MaxQueryTenths, o \in PollResults :
         LET goes_on == o.kind # "error" /\ ~JobFinished(o)
         IN wait' = [wait EXCEPT
                       !.polls = Append(@, o),
                       !.asked = wait.now,
                       !.answered = wait.now + d,
                       !.now = @ + d + (IF goes_on THEN POLL_SLEEP_TENTHS
                                        ELSE 0),
                       !.pc = IF goes_on THEN "test" ELSE "returned"]
    /\ UNCHANGED <<confvars, pollvars, pmvars, tempfiles, call>>

NextWait == WaitCall \/ WaitLoopTest \/ WaitPoll

\* wait_for_job_completion alone, with and without a spooler connection
InitWait ==
    /\ InitEngine
    /\ ServiceReady
    /\ cfg = CfgDefault /\ layout = 0 /\ processed_others = 0
    /\ pconf = PConfDefault
    /\ cups_connection \in BOOLEAN
    /\ PrinterManagerInit

\* the thread that called goes on to the next statement
SpecWait == InitWait /\ [][NextWait]_vars /\ WF_vars(NextWait)

\* ------------------------------------------------------ save_attachments
\* attachments of the email whose attachments are saved and printed
MaxSavedAttachments == 2

\* line 147: the characters that re.sub replaces by an underscore
SanitizedChars == {"<", ">", ":", "\"", "/", "\\", "|", "?", "*"}

\* line 147: re.sub(r'[<>:"/\\|?*]', '_', filename)
Sanitize(filename) ==
    [i \in 1..Len(filename) |->
        IF filename[i] \in SanitizedChars THEN "_" ELSE filename[i]]

\* the file names and the payloads of the attachments
SavedFilenames ==
    { <<"a", ".", "p", "d", "f">>,
      <<"a", ":", "b", ".", "p", "d", "f">>,
      <<"a", "/", "b", ".", "p", "d", "f">>,
      <<"c", ".", "t", "x", "t">> }
Payloads == { <<"d", "a", "t", "a", "1">>, <<"d", "a", "t", "a", "2">> }

SavedAttachments ==
    UNION {[1..n -> [filename : SavedFilenames, data : Payloads]] :
             n \in 0..MaxSavedAttachments}

\* the directory after the file at path has been written with data
WriteFile(dir, path, data) ==
    [p \in DOMAIN dir \cup {path} |-> IF p = path THEN data ELSE dir[p]]

\* lines 150-151: how the writing of one file ends: it is written; open()
\* raises and the directory is as it was; or write() or the close() at the
\* end of the with block raises after open() has made the file or emptied
\* the one that was there, and the file holds the bytes written so far
WriteResults ==
    [kind : {"ok", "open_error"}, written : {0}]
    \cup [kind : {"write_error"},
          written : UNION {0..Len(data) : data \in Payloads}]

\* the content of a file whose writing was cut short
WrittenSoFar(data, written) == SubSeq(data, 1, Min(written, Len(data)))

\* EmailMessage.save_attachments, lines 143-159, on the attachments from
\* position i on, the writing of the k-th file ending as writes[k] says:
\* the paths of saved_files and the files of the directory. A file whose
\* writing raises is logged and left out of saved_files (lines 156-157)
RECURSIVE SaveAttachments(_, _, _, _, _)
SaveAttachments(attachments, writes, i, saved, dir) ==
    IF i > Len(attachments) THEN [saved_files |-> saved, dir |-> dir]
    ELSE LET file_path == Sanitize(attachments[i].filename)
         IN CASE writes[i].kind = "ok" ->
                   SaveAttachments(attachments, writes, i + 1,
                                   Append(saved, file_path),
                                   WriteFile(dir, file_path,
                                             attachments[i].data))
              [] writes[i].kind = "write_error" ->
                   SaveAttachments(attachments, writes, i + 1, saved,
                                   WriteFile(dir, file_path,
                                             WrittenSoFar(
                                                attachments[i].data,
                                                writes[i].written)))
              [] OTHER ->
                   SaveAttachments(attachments, writes, i + 1, saved, dir)

\* EmailMessage.save_attachments called on the attachments in the trace,
\* with an empty directory, every write ending in one of its ways: it
\* returns saved_files and leaves the files of the directory
CallSaveAttachments ==
    /\ Len(ptrace) = 1
    /\ ptrace[1].name = "save_attachments"
    /\ \E writes \in [1..Len(ptrace[1].file) -> WriteResults] :
         LET saved == SaveAttachments(ptrace[1].file, writes, 1, <<>>, <<>>)
         IN ptrace' = Append(ptrace,
              [op |-> "return", result |-> saved.saved_files,
               dir |-> saved.dir, writes |-> writes])
    /\ prints' = prints + 1
    /\ UNCHANGED <<opvars, confvars, pollvars, pconf, cups_connection,
                   last_image_orientation, active_jobs, next_job>>

NextSave == CallSaveAttachments

\* the saving of the attachments of one email, over the attachment lists
\* above
InitSave ==
    /\ InitEngine
    /\ ServiceReady
    /\ cfg = CfgDefault /\ layout = 0 /\ processed_others = 0
    /\ pconf = PConfDefault
    /\ cups_connection = TRUE
    /\ last_image_orientation = NoOrientation
    /\ active_jobs = {}
    /\ next_job = 1
    /\ prints = 0
    /\ \E attachments \in SavedAttachments :
         ptrace = << Called("save_attachments", attachments) >>

SpecSave == InitSave /\ [][NextSave]_vars

\* ------------------------------------------------ _should_process_email
\* attachments of one message handed to the filter
MaxFilterAttachments == 2

\* sub in str
Contains(sub, str) ==
    \E i \in 0..(Len(str) - Len(sub)) : SubSeq(str, i + 1, i + Len(sub)) = sub

\* the extension looked for anywhere in the file name
FoundAnywhere(str, suffix) == Contains(suffix, str)

\* str.endswith(suffix)
EndsWith(str, suffix) ==
    /\ Len(suffix) <= Len(str)
    /\ SubSeq(str, Len(str) - Len(suffix) + 1, Len(str)) = suffix

\* lines 346-351: the subject fails the keyword filter
SubjectFilteredOut(subject, subject_keywords) ==
    /\ subject_keywords # <<>>
    /\ ~\E k \in 1..Len(subject_keywords) :
          Contains(StrLower(subject_keywords[k]), StrLower(subject))

\* lines 361-367: the file name fails the allow-list
TypeFilteredOut(filename, allowed_attachments) ==
    /\ allowed_attachments # <<>>
    /\ ~\E k \in 1..Len(allowed_attachments) :
          EndsWith(StrLower(filename), StrLower(allowed_attachments[k]))

\* EmailHandler._should_process_email on the subject and the attachments of
\* the message, with the filters.* keys of the configuration
FilterEmail(subject, attachments, filters) ==
    IF SubjectFilteredOut(subject, filters.subject_keywords) THEN FALSE
    ELSE IF \E i \in 1..Len(attachments) :
               attachments[i].size > filters.max_attachment_size
    THEN FALSE
    ELSE IF \E i \in 1..Len(attachments) :
               TypeFilteredOut(attachments[i].filename,
                               filters.allowed_attachments)
    THEN FALSE
    ELSE TRUE

\* the subjects, keyword lists, file names and allow-lists of the inputs,
\* among them "F\u0130T" (capital I with dot above) with the keyword "fit",
\* "\u00c9t\u00e9" with the keyword "\u00e9T\u00c9", and the file name
\* "a.PD\u017f" (long s) with the extension ".pds"
Subjects ==
    { Codes(<<"P", "r", "i", "n", "t">>),
      Codes(<<"r", "e", "P", "R", "I", "N", "T", "s">>),
      Codes(<<"p", "r", "i", "n">>),
      Codes(<<"F">>) \o <<CapitalIWithDot>> \o Codes(<<"T">>),
      <<201>> \o Codes(<<"t">>) \o <<233>>,
      <<>> }
KeywordLists ==
    { <<>>,
      << Codes(<<"p", "r", "i", "n", "t">>) >>,
      << Codes(<<"P", "R", "I", "N", "T">>) >>,
      << Codes(<<"f", "a", "x">>), Codes(<<"P", "r", "i", "n", "t">>) >>,
      << Codes(<<"f", "i", "t">>) >>,
      << Codes(<<"f", "a", "x">>), <<233>> \o Codes(<<"T">>) \o <<201>> >>,
      << Codes(<<"f", "a", "x">>) >> }
Filenames ==
    { Codes(<<"a", ".", "p", "d", "f">>),
      Codes(<<"A", ".", "P", "D", "F">>),
      Codes(<<"a", ".", "p", "d", "f", ".", "e", "x", "e">>),
      Codes(<<"a", ".", "P", "D">>) \o <<LongS>>,
      Codes(<<"p", "d", "f">>) }
AllowLists ==
    { <<>>,
      << Codes(<<".", "p", "d", "f">>) >>,
      << Codes(<<".", "t", "x", "t">>), Codes(<<".", "P", "D", "F">>) >>,
      << Codes(<<".", "p", "d", "s">>) >>,
      << Codes(<<".", "t", "x", "t">>) >> }

\* an attachment as EmailMessage holds it; the message may have been built
\* with a larger size limit than the filter's
FilterAttachments ==
    [filename : Filenames, size : {MaxAttachmentSize, MaxAttachmentSize + 1}]

\* the messages and filter settings handed to _should_process_email
FilterInputs ==
    [subject : Subjects,
     attachments : UNION {[1..n -> FilterAttachments] :
                            n \in 0..MaxFilterAttachments},
     filters : [subject_keywords : KeywordLists,
                max_attachment_size : {MaxAttachmentSize},
                allowed_attachments : AllowLists]]

\* _should_process_email is called on the message in the trace
ShouldProcess ==
    /\ Len(ptrace) = 1
    /\ ptrace[1].name = "_should_process_email"
    /\ LET in == ptrace[1].file
       IN ptrace' = Append(ptrace,
                           Returned(FilterEmail(in.subject, in.attachments,
                                                in.filters)))
    /\ prints' = prints + 1
    /\ UNCHANGED <<opvars, confvars, pollvars, pconf, cups_connection,
                   last_image_orientation, active_jobs, next_job>>

NextFilter == ShouldProcess

\* _should_process_email alone, over the inputs above
InitFilter ==
    /\ InitEngine
    /\ ServiceReady
    /\ cfg = CfgDefault /\ layout = 0 /\ processed_others = 0
    /\ pconf = PConfDefault
    /\ cups_connection = TRUE
    /\ last_image_orientation = NoOrientation
    /\ active_jobs = {}
    /\ next_job = 1
    /\ prints = 0
    /\ \E in \in FilterInputs :
         ptrace = << Called("_should_process_email", in) >>

SpecFilter == InitFilter /\ [][NextFilter]_vars

\* ------------------------------------------- configuration and startup
\* Config objects are constructed and set, then a service is constructed
\* with one of them and started
InitConfig ==
    /\ InitEngine
    /\ cfg = CfgDefault /\ layout = 0 /\ processed_others = 0
    /\ pconf = PConfDefault
    /\ cups_connection = TRUE
    /\ PrinterManagerInit
    /\ heap = DEFAULT_CONFIG
    /\ configs = [i \in 1..MaxConfigs |-> NoConfig]
    /\ service = NoService
    /\ disk = ConfigFiles
    /\ file_calls = 0

NextConfig ==
    \/ NewConfig \/ ConfigLoad \/ ConfigSave \/ ConfigSet
    \/ ConstructService \/ Start

SpecConfig == InitConfig /\ [][NextConfig]_vars

\* ------------------------------------------------------------ properties
PrintOps == {"print_file", "print_html", "print_text"}
MailboxOps == {"connect", "search", "fetch", "store_seen", "store_deleted",
               "expunge"}

\* the log positions whose call is one of ops
Calls(ops) == {j \in 1..Len(log) : log[j][1] \in ops}

\* the call at position j reached the mail server
Issued(j) == log[j][3] # "noconn"

\* the polling thread is between the folder select and the end-of-cycle
\* expunge of a cycle
MidCycle == pc \in {"fetch", "seen", "deleted", "expunge"}

\* the polling thread is inside _process_emails
Processing == pc \in {"process", "attachment", "attachment_wait", "html",
                      "html_convert", "html_weasy", "html_submit", "html_wait",
                  "text",
                      "text_submit", "text_wait", "count", "attachment_image",
                  "attachment_image_sleep"}

\* the polling thread is at the loop's sleep, or has left the loop there
AtRest == pc \in {"idle", "leave", "leave_logout", "finally", "exited"}

\* a KeyboardInterrupt has ended the loop inside a poll cycle: the cycle
\* did not run to its end
CutShort == interrupted \notin {"none", "idle"}

\* _process_emails has returned for the batch of the current cycle
BatchDone == AtRest /\ ~CutShort /\ emails # <<>>

\* a stop() has logged out or dropped the connection
StopDisconnected == stop_done \/ stop_pc = "drop"

\* the messages _process_emails has started to process, in order
RECURSIVE Attempts(_)
Attempts(s) ==
    IF s = <<>> THEN <<>>
    ELSE IF Head(s)[1] = "process" THEN <<Head(s)[2]>> \o Attempts(Tail(s))
         ELSE Attempts(Tail(s))

\* C1 as stated: every print submission for a message comes after a
\* set-flag(Seen) call for that message that was issued to the mailbox.
C1_SeenCallBeforePrint ==
    \A j \in Calls(PrintOps) :
        \E i \in 1..(j - 1) :
            /\ log[i][1] = "store_seen" /\ log[i][2] = log[j][2]
            /\ Issued(i)

\* C1, amended: with email.mark_as_read enabled, every print submission for
\* a message comes after the cycle's set-flag(Seen) store for that message;
\* the store is a call issued to the mailbox unless a stop() has logged
\* out or dropped the connection, in which case it fails locally and the
\* message is printed all the same.
C1_MarkAttemptBeforePrint ==
    cfg.mark_as_read =>
        \A j \in Calls(PrintOps) :
            \E i \in 1..(j - 1) :
                /\ log[i][1] = "store_seen" /\ log[i][2] = log[j][2]
                /\ (~Issued(i) => StopDisconnected)

C1_Witness ==
    /\ cfg.mark_as_read
    /\ \E j \in Calls(PrintOps) :
          \E i \in 1..(j - 1) :
              log[i] = <<"store_seen", log[j][2], "ok">>

\* C2: a message with a non-empty Message-ID is accepted by at most one of
\* two consecutive poll cycles.
C2_AcceptedAtMostOnce ==
    \A m \in Msgs :
        MessageId(m) # NoId =>
            \A c \in accepted_in[m] : (c + 1) \notin accepted_in[m]

\* C3: for an email with at least one attachment and attachment printing
\* enabled, print_html and print_text are never called, whatever its body
\* is and whether or not the attachments print.
C3_AttachmentOnly ==
    \A j \in Calls({"print_html", "print_text"}) :
        ~(cfg.print_attachments
          /\ EmailMessage(log[j][2]).attachments # <<>>)

C3_Witness ==
    \E j \in Calls({"print_file"}) :
        /\ log[j][3] = "fail"
        /\ Strip(EmailMessage(log[j][2]).html_content) # <<>>
        /\ Strip(EmailMessage(log[j][2]).text_content) # <<>>
        /\ pc = "count"

\* C4: when the processing of one email of a batch raises, every email of
\* the batch still gets exactly one processing attempt, in batch order, and
\* _process_emails returns.
C4_EveryEmailAttempted ==
    /\ Processing =>
          /\ idx \in 1..Len(emails)
          /\ Attempts(log) =
               SubSeq(emails, 1, IF pc = "process" THEN idx - 1 ELSE idx)
    /\ BatchDone => Attempts(log) = emails

C4_Witness ==
    /\ BatchDone
    /\ Len(emails) >= 2
    /\ <<"print_attachments", emails[1], "raise">> \in
          {log[j] : j \in 1..Len(log)}

\* C5: after _process_emails has handled a batch of n emails,
\* emails_processed has increased by exactly n, also when some raised.
C5_ProcessedCountsBatch ==
    BatchDone => stats.emails_processed = base_processed + Len(emails)

\* C6: with delete-after-print enabled, a cycle that flags at least one
\* message as Deleted calls expunge exactly once, after the last Deleted
\* flag, and never between the handling of two messages.
C6_OneExpungeAfterFlags ==
    LET flagged == {j \in Calls({"store_deleted"}) : log[j][3] = "ok"}
        expunges == {j \in Calls({"expunge"}) : Issued(j)}
    IN /\ \A x \in expunges :
             \A j \in Calls({"fetch", "store_seen", "store_deleted"}) : j < x
       /\ (cfg.delete_after_print /\ flagged # {}
            /\ (pc = "trim" \/ Processing))
              => Cardinality(expunges) = 1

\* C7: once a stop request has set running to false, the loop finishes at
\* most the cycle in progress and exits: it does not begin another cycle.
C7_NoNewCycleAfterStop ==
    [][(stop_done /\ ~running /\ pc = "idle")
          => pc' \in {"idle", "leave", "killed"}]_vars

\* C8: a poll cycle that starts after stop() has cleared running and
\* disconnected makes no connect, no fetch and no print submission.
C8_QuietAfterStop ==
    cycle_after_stop =>
        Calls({"connect", "fetch"} \cup PrintOps) = {}

\* C9: while a poll cycle is between its folder select and its expunge,
\* only the polling thread changes imap_connection.
C9_ConnectionOwnedByPoller ==
    [][(MidCycle /\ imap_connection' # imap_connection)
          => <<pc, todo, cur, emails, idx, log>>' #
             <<pc, todo, cur, emails, idx, log>>]_vars

\* C10 as stated: the id cache holds at most 1000 ids in every state.
C10_AlwaysWithinHighWater == ProcessedLen <= HighWater

\* C10, amended: the id cache holds at most 1000 ids whenever the polling
\* thread is not inside the mailbox part of a cycle (the limit is enforced
\* once, after the cycle's expunge); inside it the cache exceeds 1000 by at
\* most the number of messages the cycle has accepted. (A cycle that an
\* interrupt or the end of the process cuts short never reaches the limit.)
C10_WithinHighWaterBetweenCycles ==
    /\ (~MidCycle /\ pc # "trim" /\ pc # "killed" /\ ~CutShort)
          => ProcessedLen <= HighWater
    /\ ProcessedLen <= HighWater + Len(emails)

C10_Witness ==
    /\ pc = "process"
    /\ ProcessedLen = LowWater
    /\ processed_others < LowWater

\* the attachment parts of the raw message m that are larger than the limit
Oversized(m) ==
    {i \in DOMAIN RawOf(layout, m).parts :
        RawOf(layout, m).parts[i].size > MaxAttachmentSize}

\* the elements of a sequence
Range(s) == {s[i] : i \in DOMAIN s}

\* C12: a fetched message carrying an attachment larger than
\* filters.max_attachment_size is rejected as a whole: it is not in the
\* accepted batch, gets no Seen store and nothing of it is printed.
C12_OversizeRejectsMessage ==
    \A m \in Msgs :
        Oversized(m) # {} =>
            /\ m \notin Range(emails)
            /\ \A j \in Calls({"store_seen"} \cup PrintOps) : log[j][2] # m

\* the attachment parts of the raw message m that the parser passes over
\* for another reason than their size: no file name, or no payload
Unusable(m) ==
    {i \in DOMAIN RawOf(layout, m).parts :
        \/ ~RawOf(layout, m).parts[i].named
        \/ RawOf(layout, m).parts[i].size = 0}

\* C16: the parser keeps an attachment part of exactly max_attachment_size
\* bytes and drops one of max_attachment_size + 1 bytes; dropping it does
\* not fail the parse and leaves the other parts (those with a file name
\* and a payload), in order, in attachments.
C16_SizeLimitInclusive ==
    \A m \in Msgs :
        LET parts == RawOf(layout, m).parts
            att == EmailMessage(m).attachments
            dropped == Oversized(m) \cup Unusable(m)
        IN /\ \A i \in DOMAIN parts \ Unusable(m) :
                 /\ parts[i].size = MaxAttachmentSize
                       => parts[i] \in Range(att)
                 /\ parts[i].size = MaxAttachmentSize + 1
                       => parts[i] \notin Range(att)
           /\ Len(att) = Len(parts) - Cardinality(dropped)
           /\ \A i \in DOMAIN parts :
                 i \notin dropped =>
                    att[i - Cardinality({k \in dropped : k < i})] = parts[i]
           /\ (cur = m /\ pc \in {"seen", "deleted"}) =>
                 \A i \in DOMAIN att : att[i].size <= MaxAttachmentSize

C16_Witness ==
    /\ cur \in Msgs
    /\ pc = "seen"
    /\ RawOf(layout, cur) = RawOversize
    /\ EmailMessage(cur).attachments = <<Part(TRUE, MaxAttachmentSize)>>

\* the log position at which the processing of an email began last, 0 when
\* the cycle has processed none
LastAttempt ==
    IF Calls({"process"}) = {} THEN 0
    ELSE CHOOSE j \in Calls({"process"}) :
            \A k \in Calls({"process"}) : k <= j

\* the log positions of what the processing begun at position j did
EntriesOf(j) ==
    {k \in (j + 1)..Len(log) : \A i \in (j + 1)..k : log[i][1] # "process"}

\* _process_single_email has returned, or raised, for the attempt at log
\* position j
AttemptOver(j) ==
    \/ j < LastAttempt
    \/ j = LastAttempt /\ pc \in {"count", "process", "idle"}

\* the attempt at log position j is the one _process_single_email has just
\* returned from: _process_emails is about to count the email
JustReturned(j) == j = LastAttempt /\ j > 0 /\ pc = "count"

\* C13: when the print attempt for an email fails on every path it tried
\* (the attachment printing or the body printing fails or raises),
\* print_jobs_failed grows by at least one for that email.
C13_FailedPrintCounted ==
    \A j \in Calls({"process"}) :
        (/\ JustReturned(j)
         /\ EntriesOf(j) # {}
         /\ \A k \in EntriesOf(j) : log[k][3] # "ok")
          => stats.print_jobs_failed > entry_stats.print_jobs_failed

\* C19: with attachment printing disabled, an email with attachments and a
\* printable body takes the body path: no attachment call is made, the
\* body is printed by one _print_email_content invocation (at most one
\* print_html, then at most one print_text, at least one of them), and
\* when one of them succeeds emails_printed grows by one.
C19_BodyPathWhenAttachmentsDisabled ==
    \A j \in Calls({"process"}) :
        (/\ ~cfg.print_attachments
         /\ EmailMessage(log[j][2]).attachments # <<>>
         /\ ShouldPrintContent(EmailMessage(log[j][2])))
         => /\ \A k \in EntriesOf(j) :
                  /\ log[k][1] \in {"print_html", "print_text"}
                  /\ log[k][2] = log[j][2]
                  /\ log[k][1] = "print_html" => k = j + 1
            /\ Cardinality({k \in EntriesOf(j) :
                               log[k][1] = "print_html"}) <= 1
            /\ Cardinality({k \in EntriesOf(j) :
                               log[k][1] = "print_text"}) <= 1
            /\ AttemptOver(j) => EntriesOf(j) # {}
            /\ JustReturned(j) =>
                  stats.emails_printed =
                     IF \E k \in EntriesOf(j) : log[k][3] = "ok"
                     THEN entry_stats.emails_printed + 1
                     ELSE entry_stats.emails_printed

C19_Witness ==
    /\ pc = "count"
    /\ ~cfg.print_attachments
    /\ EmailMessage(emails[idx]).attachments # <<>>
    /\ log[Len(log)] = <<"print_text", emails[idx], "ok">>
    /\ log[Len(log) - 1] = <<"print_html", emails[idx], "fail">>
    /\ stats.emails_printed = entry_stats.emails_printed + 1

\* a body that has something to print: it is not white space only
Printable(body) == Strip(body) # <<>>

\* the email has no attachments to print and no body to print under the
\* configuration
NeitherPath(m) ==
    LET e == EmailMessage(m)
    IN /\ ~(cfg.print_attachments /\ e.attachments # <<>>)
       /\ ~(Printable(e.text_content) /\ cfg.print_text_emails)
       /\ ~(Printable(e.html_content) /\ cfg.print_html_emails)

\* nothing was submitted for the attempt at log position j, and the
\* counters of printed emails and failed jobs are as they were
NothingPrinted(j) ==
    /\ EntriesOf(j) = {}
    /\ j = LastAttempt =>
          /\ stats.emails_printed = entry_stats.emails_printed
          /\ stats.print_jobs_failed = entry_stats.print_jobs_failed

\* C20: for an email to which neither the attachment path nor the body
\* path applies, _process_emails submits nothing, leaves emails_printed
\* (and print_jobs_failed) unchanged and adds one to emails_processed.
C20_NoPathNoPrint ==
    [][/\ \A j \in Calls({"process"})' :
             NeitherPath(log'[j][2]) => NothingPrinted(j)'
       /\ (pc = "count" /\ idx' # idx /\ NeitherPath(emails[idx]))
           => stats' = [stats EXCEPT !.emails_processed = @ + 1]]_vars

C20_Witness ==
    /\ pc \in {"process", "idle"}
    /\ idx >= 2
    /\ NeitherPath(emails[idx - 1])
    /\ log[Len(log)] = <<"process", emails[idx - 1], "">>
    /\ stats.emails_processed >= 1
    /\ stats.emails_printed = 0

\* the positions of the last print operation's trace that are submissions
\* (printFile calls and lp commands)
Submissions == {i \in DOMAIN ptrace : ptrace[i].op = "submit"}

\* the options a submission carries, as a set of <<key, value>> pairs
CarriedOptions(ev) ==
    IF ev.via = "cups"
    THEN {<<k, ev.options[k]>> : k \in DOMAIN ev.options}
    ELSE Range(ev.options)

\* the value a submission carries for an option, "absent" when it has none
Carried(ev, key) ==
    IF \E a \in CarriedOptions(ev) : a[1] = key
    THEN (CHOOSE a \in CarriedOptions(ev) : a[1] = key)[2]
    ELSE "absent"

\* the operation called last has returned or raised
OperationOver ==
    ptrace # <<>> /\ ptrace[Len(ptrace)].op \in {"return", "raise"}

\* C11: no file whose estimated page count exceeds
\* processing.max_pages_per_document is submitted, on any file-print path
\* and on both the spooler path and the lp path.
C11_PageLimitOnEverySubmission ==
    pconf.max_pages > 0 =>
        \A i \in Submissions :
            EstimatePageCount(ptrace[i].file, ptrace[i].ctype)
               <= pconf.max_pages

\* C14: a submission that returned a job id has that job polled before the
\* operation that submitted it returns and before a file is deleted, for
\* files printed through print_file as well as for text and HTML bodies.
C14_JobPolledBeforeReturn ==
    OperationOver =>
        \A i \in Submissions :
            ptrace[i].job # 0 =>
                \E j \in DOMAIN ptrace :
                    /\ j > i
                    /\ ptrace[j].op = "poll"
                    /\ ptrace[j].job = ptrace[i].job
                    /\ \A k \in DOMAIN ptrace :
                          ptrace[k].op \in {"return", "unlink"} => j < k

\* the options the spooler path passes to printFile on a file-print path
SpoolerOptions(route) ==
    CASE route = "pdf" -> PdfOptions
      [] route = "image" -> ImageOptions(last_image_orientation)
      [] OTHER -> DefaultOptions

\* C15: on every file-print path, the -o key=value pairs of the lp command
\* are exactly the options the spooler path would pass for the same file
\* and configuration.
C15_LpOptionsMatchSpooler ==
    \A i \in Submissions :
        ptrace[i].via = "lp" =>
            CarriedOptions(ptrace[i]) =
                {<<k, SpoolerOptions(ptrace[i].route)[k]>> :
                    k \in DOMAIN SpoolerOptions(ptrace[i].route)}

\* C17: every submission of a PDF through print_file carries
\* orientation-requested = 3, whatever printer.orientation is, on the
\* spooler path and on the lp path.
C17_PdfAlwaysPortrait ==
    \A i \in Submissions :
        ptrace[i].route = "pdf" =>
            Carried(ptrace[i], "orientation-requested") = "3"

C17_Witness ==
    /\ StrLower(pconf.orientation) = Landscape
    /\ pconf.orientation # Landscape
    /\ \E i \in Submissions :
          /\ ptrace[i].route = "pdf"
          /\ ptrace[i].via = "cups"
          /\ ptrace[i].outcome = "job"
    /\ ptrace[1].name = "print_file"

C21_AbortedJobNotCompleted ==
    \A i \in DOMAIN ptrace :
        (ptrace[i].op = "poll" /\ ptrace[i].outcome = "state"
            /\ ptrace[i].state = JOB_STATE_ABORTED)
        => ~ptrace[i].result

\* C22: print_text and print_html return the success of the submission,
\* whatever the wait for the job returned
BodyOperation ==
    OperationOver /\ ptrace[1].name \in {"print_text", "print_html"}

C22_ResultIsSubmissionSuccess ==
    BodyOperation =>
        (ptrace[Len(ptrace)].result
            <=> \E i \in DOMAIN ptrace :
                    /\ ptrace[i].op = "submit"
                    /\ ptrace[i].outcome \in Accepted)

C22_Witness ==
    /\ BodyOperation
    /\ \E i \in DOMAIN ptrace :
          /\ ptrace[i].op = "poll"
          /\ ptrace[i].outcome = "timeout"
          /\ ~ptrace[i].result
    /\ ptrace[Len(ptrace)] = Returned(TRUE)

\* the trace is that of a _print_attachments call
AttachmentCall ==
    ptrace # <<>> /\ ptrace[1].name = "_print_attachments"

Events(op) == {i \in DOMAIN ptrace : ptrace[i].op = op}

\* C23 as stated: the wait is min(5 + 2*N, 30) with N the number of files
\* handed to print_file, and the cleanup comes after the wait
C23_WaitPerSubmittedAttachment ==
    AttachmentCall =>
        \A i \in Events("sleep") :
            /\ ptrace[i].seconds
                 = Min(5 + 2 * Cardinality(Events("print_file")), 30)
            /\ \A j \in Events("cleanup") : i < j

\* C23, amended: the wait is min(5 + 2*P, 30) with P the number of files
\* for which print_file returned True; the directory is removed after it
C23_WaitPerPrintedAttachment ==
    AttachmentCall =>
        \A i \in Events("sleep") :
            /\ ptrace[i].seconds
                 = Min(5 + 2 * Cardinality({k \in Events("print_file") :
                                              ptrace[k].result = "ok"}), 30)
            /\ \A j \in Events("cleanup") : i < j

C23_Witness ==
    /\ AttachmentCall
    /\ \E i \in Events("sleep") :
          /\ ptrace[i].seconds = 30
          /\ Events("cleanup") = {i + 1}
    /\ Cardinality({k \in Events("print_file") :
                        ptrace[k].result = "ok"}) = 13
    /\ \E k \in Events("print_file") : ptrace[k].result = "fail"

\* the temporary directory of the _print_attachments call of the trace:
\* TemporaryDirectory() makes a new one at every call
Directory ==
    [role |-> "dir",
     made_by |-> IF call = NoCall THEN prints ELSE prints + 1, nth |-> 1]

\* the directory of the call exists
DirectoryExists == Directory \in tempfiles

\* C24 as stated: once _print_attachments has created the temporary
\* directory, the directory has been removed when it returns or raises
C24_TempDirRemovedOnEveryExit ==
    (AttachmentCall /\ OperationOver /\ Events("mkdtemp") # {})
    => ~DirectoryExists

\* C24, amended: once _print_attachments has created the temporary
\* directory, it calls cleanup() on it before it returns or raises, also
\* when save_attachments raises or print_file raises; the directory has
\* been removed then unless cleanup() itself raised, and in that case
\* _print_attachments raises and the directory stays
C24_CleanupCalledOnEveryExit ==
    /\ (AttachmentCall /\ OperationOver) =>
          \A i \in Events("mkdtemp") :
              /\ Events("cleanup") = {Len(ptrace) - 1}
              /\ i < Len(ptrace) - 1
              /\ IF ptrace[Len(ptrace) - 1].removed
                 THEN ~DirectoryExists
                 ELSE /\ DirectoryExists
                      /\ ptrace[Len(ptrace)].op = "raise"
    /\ (AttachmentCall /\ ~OperationOver /\ Events("mkdtemp") # {})
          => Events("cleanup") = {} /\ DirectoryExists

C24_Witness ==
    /\ AttachmentCall
    /\ Events("mkdtemp") # {}
    /\ Events("save_raise") # {}
    /\ ptrace[Len(ptrace)].op = "raise"
    /\ ptrace[Len(ptrace) - 1].op = "cleanup"
    /\ ptrace[Len(ptrace) - 1].removed
    /\ ~DirectoryExists

\* the credentials of the Config the service was constructed with
MissingCredentials(i) ==
    \/ ConfigGet(i, "email", "username") = ""
    \/ ConfigGet(i, "email", "password") = ""

\* C25: constructing the service with a Config that lacks the username or
\* the password raises, and after that the service never runs: no start,
\* no mailbox connection, no poll cycle, no print operation
C25_MissingCredentialsRaise ==
    [][ /\ (service = NoService /\ service' # NoService
            /\ MissingCredentials(service'.config))
           => service'.state = "raised"
        /\ service.state = "raised"
           => /\ service' = service
              /\ ~running' /\ pc' = "init"
              /\ imap_connection' = "none"
              /\ cycles' = 0 /\ log' = <<>> /\ ptrace' = <<>> ]_vars

C25_Witness ==
    /\ service.state = "raised"
    /\ ConfigGet(service.config, "email", "username") # ""
    /\ ConfigGet(service.config, "email", "password") = ""
    /\ ~running /\ pc = "init"

\* the values read from a Config instance
ValuesOf(i) == <<heap[configs[i].email], heap[configs[i].printer]>>

\* C26: a Config constructed where no file exists reads the default values
\* and does not validate; a set() on one instance changes neither
\* DEFAULT_CONFIG nor the values read from another instance
C26_DefaultsIsolated ==
    [][ /\ \A i \in 1..MaxConfigs :
              (~configs[i].made /\ configs'[i].made
                  /\ configs'[i].file = "missing")
              => /\ <<heap'[configs'[i].email],
                       heap'[configs'[i].printer]>> = DEFAULT_CONFIG
                 /\ ConfigGet(i, "email", "server")' = "imap.gmail.com"
                 /\ ConfigGet(i, "email", "port")' = 993
                 /\ ~Validate(i)'
        /\ configs' = configs
           => /\ SubSeq(heap', 1, 2) = SubSeq(heap, 1, 2)
              /\ \E i \in 1..MaxConfigs :
                    \A j \in 1..MaxConfigs \ {i} :
                        configs[j].made => ValuesOf(j)' = ValuesOf(j) ]_vars

\* the geometry computed by the last _image_to_pdf call, and the pasting
\* of the resized image onto the page
ImageLayouts == {i \in DOMAIN ptrace : ptrace[i].op = "layout"}
ImagePastes == {i \in DOMAIN ptrace : ptrace[i].op = "paste"}

\* the size computed at trace position i is within the available size (the
\* page less the margins, or the whole page when the scale with margins is
\* not above 0.1), and a 4000 x 3000 image is scaled down
FitsAvailable(i) ==
    LET ev == ptrace[i]
        withMargins == ScaleFactor(ev.w, ev.h, Available(TRUE))
    IN /\ ev.margins => /\ 10 * ev.final_width <= 5383
                        /\ 10 * ev.final_height <= 7853
       /\ ~ev.margins => /\ ev.final_width <= 595
                         /\ ev.final_height <= 842
                         /\ 10 * withMargins.num <= withMargins.den
       /\ (ev.w = 4000 /\ ev.h = 3000) => ev.scale.num < ev.scale.den

\* the image of the size computed at trace position i is pasted next, with
\* as much of the page to its left as to its right and as much above it
\* as below it, but for the one point of an odd difference
PlacedInTheMiddle(i) ==
    /\ i + 1 \in ImagePastes
    /\ LET ev == ptrace[i + 1]
           right == 595 - ev.width - ev.x_pos
           below == 842 - ev.height - ev.y_pos
       IN /\ ev.width = ptrace[i].final_width
          /\ ev.height = ptrace[i].final_height
          /\ ev.width >= 1 /\ ev.height >= 1
          /\ ev.x_pos >= 0 /\ ev.y_pos >= 0
          /\ right - ev.x_pos \in {0, 1}
          /\ below - ev.y_pos \in {0, 1}

\* C27 as stated: for every size w, h >= 1 the resized image is placed on
\* the page, within the available size and in the middle, the offsets not
\* negative; a 4000 x 3000 image is scaled down
C27_ImageFitsPage ==
    \A i \in ImageLayouts : FitsAvailable(i) /\ PlacedInTheMiddle(i)

\* C27, amended: for every size w, h >= 1 the final size is within the
\* available size and a 4000 x 3000 image is scaled down; when the final
\* width and height are both at least 1 the resized image is placed in
\* the middle of the page, the offsets not negative; when one of them is 0
\* nothing is placed, no file is made and None is returned
C27_ImageFitsPageUnlessEmpty ==
    \A i \in ImageLayouts :
        /\ FitsAvailable(i)
        /\ IF ptrace[i].final_width >= 1 /\ ptrace[i].final_height >= 1
           THEN PlacedInTheMiddle(i)
           ELSE /\ ImagePastes = {}
                /\ ptrace[Len(ptrace)] = Returned(FALSE)
                /\ {t \in tempfiles : t.made_by = prints} = {}

C27_Witness ==
    /\ \E i \in ImageLayouts :
          /\ ptrace[i].w = 4000 /\ ptrace[i].h = 3000
          /\ ptrace[i].final_width = 538 /\ ptrace[i].final_height = 403
          /\ ptrace[i + 1].op = "paste"
          /\ ptrace[i + 1].x_pos = 28 /\ ptrace[i + 1].y_pos = 219
    /\ ptrace[Len(ptrace)] = Returned(TRUE)

\* a call of _preprocess_html_for_pdf that has returned
HtmlDone ==
    Len(ptrace) = 2 /\ ptrace[1].name = "_preprocess_html_for_pdf"

\* the literal that stands for an attribute
Placeholder(attr) ==
    IF attr = "src" THEN SrcPlaceholder ELSE HrefPlaceholder

\* what the rewriting of one tag is to give: a src or href attribute with
\* a cid: value becomes the placeholder, any other tag stays as it is
Rewritten(p) ==
    IF p.cid /\ p.attr \in {"src", "href"} THEN Tag(Placeholder(p.attr))
    ELSE Render(p)

\* C28 as stated: every src or href attribute whose quoted value starts
\* with cid: is rewritten, the rest of the document is unchanged
C28_EveryCidAttributeRewritten ==
    HtmlDone =>
        ptrace[2].result
          = Flatten([k \in DOMAIN ptrace[1].file |->
                        Rewritten(ptrace[1].file[k])])

\* what stands in a value after its first quote character
AfterInnerQuote(value) ==
    LET k == CHOOSE j \in 1..Len(value) :
                 /\ value[j] \in Quotes
                 /\ \A j2 \in 1..(j - 1) : value[j2] \notin Quotes
    IN SubSeq(value, k + 1, Len(value))

\* what the code makes of one tag, by the form the tag is written in
RewrittenAsWritten(p) ==
    CASE p.form = "regular" -> Rewritten(p)
      [] p.form = "spaced" -> Render(p)
      [] p.form = "inner_quote" ->
            Tag(Placeholder(p.attr) \o AfterInnerQuote(p.value) \o <<p.q>>)
      [] p.form = "long_s" -> Tag(HrefPlaceholder)
      [] p.form = "other_i" -> Tag(Placeholder(p.attr))

\* C28, amended: a src or href attribute written name=quote value quote,
\* the value starting with cid: in any letter case, is rewritten up to the
\* first quote character of the value; so is an attribute whose name or
\* cid: is written with a long s, a dotless i or a capital I with dot
\* above, the name with the long s getting the href literal; white space
\* around the equals sign keeps the attribute as it is, and so is the rest
\* of the document
C28_CidAttributeRewrittenAsWritten ==
    HtmlDone =>
        ptrace[2].result
          = Flatten([k \in DOMAIN ptrace[1].file |->
                        RewrittenAsWritten(ptrace[1].file[k])])

C28_Witness ==
    /\ HtmlDone
    /\ Len(ptrace[1].file) = 2
    /\ ptrace[1].file[1].name = Codes(<<"S", "r", "C">>)
    /\ ptrace[1].file[1].q = Ord("'")
    /\ ptrace[1].file[1].value = Codes(<<"C", "I", "D", ":", "b">>)
    /\ ptrace[1].file[2].form = "long_s"
    /\ ptrace[2].result = Tag(SrcPlaceholder) \o Tag(HrefPlaceholder)

\* the last call of the current cycle
LastCall == IF log = <<>> THEN <<"none", 0, "">> ELSE log[Len(log)]

ConnectFailed(c) == c[1] = "connect" /\ c[3] # "ok"
SearchFailed(c) == c[1] = "search" /\ c[3] = "bad"
SearchRaised(c) == c[1] \in {"select", "search"} /\ c[3] = "raise"

\* the step begins a poll cycle
CycleBegins == cycles' = cycles + 1

\* C29, the frame: the step in which the connect fails or the search
\* answers with a failure ends the cycle with an empty batch, and the cycle
\* has made no fetch, no flag change, no expunge and no print call and has
\* left the mailbox, the id cache and the counters as they were
CycleAbortedCleanly ==
    /\ (log' # log /\ (ConnectFailed(LastCall') \/ SearchFailed(LastCall')))
       => /\ pc' = "idle" /\ emails' = <<>>
          /\ \A j \in DOMAIN log' : log'[j][1] \in {"connect", "search"}
          /\ UNCHANGED <<seen, deleted, expunged, processed_ids,
                         processed_others, stats>>
    /\ (pc \in {"idle", "connect", "login", "select", "search"}
        /\ pc' \in {"idle", "connect", "login", "select", "search"})
       => UNCHANGED <<seen, deleted, expunged, processed_ids,
                      processed_others, stats>>

\* C29, the retry: the cycle that follows a failed connect connects again,
\* the cycle that follows a failed search searches again
NextCycleRetries ==
    /\ (pc = "idle" /\ ConnectFailed(LastCall) /\ CycleBegins)
       => pc' = "connect"
    /\ (pc = "idle" /\ SearchFailed(LastCall) /\ CycleBegins)
       => pc' \in {"select", "connect"}

\* C29: a poll cycle whose connect fails or whose search returns a failure
\* changes nothing and hands over no batch, and the next cycle retries
C29_FailedCycleNoEffectAndRetry ==
    [][CycleAbortedCleanly /\ NextCycleRetries]_vars

\* C30: a cycle that raises at select or search drops the connection and
\* goes on to the wait of the loop; the cycle after it connects first and
\* searches only on the new connection
C30_RaiseDropsConnectionThenReconnect ==
    [][ /\ (log' # log /\ SearchRaised(LastCall'))
           => pc' = "handler" /\ emails' = <<>>
        /\ (pc \in {"handler", "handler_logout"} /\ pc' # pc)
           => \/ pc = "handler" /\ pc' = "handler_logout"
              \/ /\ pc' = "idle" /\ LoopContinues
                 /\ imap_connection' = "none"
                 /\ emails' = <<>>
              \/ pc' \in {"leave", "killed"}
        /\ (pc = "idle" /\ SearchRaised(LastCall) /\ CycleBegins)
           => pc' = "connect"
        /\ (pc \in {"connect", "login"} /\ pc' = "select")
           => /\ log' = << <<"connect", 0, "ok">> >>
              /\ imap_connection' = "auth"
        /\ \A j \in Calls({"search"})' :
              (log'[1][1] = "connect") => (j = 2 /\ log'[1][3] = "ok") ]_vars

C30_Witness ==
    /\ pc = "idle"
    /\ cycles < MaxCycles
    /\ Len(log) = 2
    /\ log[1] = <<"connect", 0, "ok">>
    /\ SearchRaised(LastCall)
    /\ imap_connection = "none"

\* the messages of the log entries s, in log order
MessagesOf(s) == [i \in 1..Len(s) |-> s[i][2]]

\* the messages the cycle's fetches accepted, in fetch order
AcceptedFetches ==
    MessagesOf(SelectSeq(log, LAMBDA c : c[1] = "fetch" /\ c[3] = "accept"))

\* the messages the cycle fetched, in fetch order
Fetched == MessagesOf(SelectSeq(log, LAMBDA c : c[1] = "fetch"))

\* s is in mailbox order, the order of an IMAP search result
Ascending(s) == \A i \in 1..(Len(s) - 1) : s[i] < s[i + 1]

\* the batch is the accepted messages in the order the search gave them,
\* the emails are processed one at a time in batch order, and every print
\* call belongs to the email whose processing began last
BatchInOrder ==
    /\ Ascending(Fetched)
    /\ AcceptedFetches = emails \o (IF cur # 0 THEN <<cur>> ELSE <<>>)
    /\ \E n \in 0..Len(emails) : Attempts(log) = SubSeq(emails, 1, n)
    /\ \A j \in Calls(PrintOps) :
          \E i \in 1..(j - 1) :
              /\ log[i] = <<"process", log[j][2], "">>
              /\ \A k \in (i + 1)..(j - 1) : log[k][1] # "process"

\* C31: the accepted batch is in the order in which the search returned the
\* messages, _process_emails handles the emails one at a time in that
\* order, and a poll cycle begins only when the batch of the cycle before
\* has been handled to its last email.
C31_BatchSequential ==
    [][/\ BatchInOrder'
       /\ cycles' # cycles =>
             /\ pc = "idle"
             /\ emails # <<>> => /\ idx = Len(emails) + 1
                                 /\ Attempts(log) = emails]_vars

C31_Witness ==
    /\ cycles = 1
    /\ pc = "idle"
    /\ Len(emails) = 2
    /\ idx = 3
    /\ Attempts(log) = emails
    /\ Cardinality(Calls(PrintOps)) >= 2

\* _should_process_email has returned
FilterDone == Len(ptrace) = 2 /\ ptrace[1].name = "_should_process_email"

\* the small letter of a capital letter of Alphabet, as the Unicode
\* character database gives it (the simple lower-case mapping); any other
\* character is left as it is
SmallLetter(c) ==
    CASE c \in 65..90 \cup 192..214 \cup 216..222 -> c + 32
      [] c = CapitalIWithDot -> 105
      [] c = 376 -> 255
      [] c \in {256 + 2 * n : n \in 0..27} \ {CapitalIWithDot} -> c + 1
      [] c \in {313 + 2 * n : n \in 0..7} -> c + 1
      [] c \in {330 + 2 * n : n \in 0..22} -> c + 1
      [] c \in {377, 379, 381} -> c + 1
      [] OTHER -> c

\* the same character but for its case
SameLetter(a, b) == SmallLetter(a) = SmallLetter(b)

\* word stands in str at offset o, the case of the letters set aside
StandsAt(word, str, o) ==
    /\ o >= 0 /\ o + Len(word) <= Len(str)
    /\ \A j \in 1..Len(word) : SameLetter(word[j], str[o + j])

\* C32 as stated: _should_process_email accepts a message if and only if
\* (the keyword list is empty or some keyword is a case-insensitive
\* substring of the subject) and no attachment is larger than the
\* configured maximum and (the allow-list is empty or every attachment's
\* file name ends, case-insensitively, with an allowed extension).
C32_AcceptsIffFiltersPass ==
    FilterDone =>
        LET in == ptrace[1].file
            f == in.filters
        IN ptrace[2].result <=>
             /\ \/ f.subject_keywords = <<>>
                \/ \E k \in 1..Len(f.subject_keywords) :
                     \E o \in 0..Len(in.subject) :
                        StandsAt(f.subject_keywords[k], in.subject, o)
             /\ \A i \in 1..Len(in.attachments) :
                   in.attachments[i].size <= f.max_attachment_size
             /\ \/ f.allowed_attachments = <<>>
                \/ \A i \in 1..Len(in.attachments) :
                     \E k \in 1..Len(f.allowed_attachments) :
                        StandsAt(f.allowed_attachments[k],
                                 in.attachments[i].filename,
                                 Len(in.attachments[i].filename)
                                   - Len(f.allowed_attachments[k]))

\* the word with every capital I with dot above written as an i and a
\* combining dot above
DotsApart(word) ==
    Flatten([j \in 1..Len(word) |->
                IF word[j] = CapitalIWithDot THEN <<105, CombiningDot>>
                ELSE <<word[j]>>])

\* C32, amended: the two matches are made on the words as str.lower()
\* gives them, in which a capital I with dot above is an i followed by a
\* combining dot above. With the words written so, _should_process_email
\* accepts a message if and only if (the keyword list is empty or some
\* keyword stands in the subject, the case of the letters set aside) and
\* no attachment is larger than the configured maximum and (the allow-list
\* is empty or every attachment's file name ends, the case of the letters
\* set aside, with an allowed extension).
C32_AcceptsIffLoweredFiltersPass ==
    FilterDone =>
        LET in == ptrace[1].file
            f == in.filters
        IN ptrace[2].result <=>
             /\ \/ f.subject_keywords = <<>>
                \/ \E k \in 1..Len(f.subject_keywords) :
                     \E o \in 0..Len(DotsApart(in.subject)) :
                        StandsAt(DotsApart(f.subject_keywords[k]),
                                 DotsApart(in.subject), o)
             /\ \A i \in 1..Len(in.attachments) :
                   in.attachments[i].size <= f.max_attachment_size
             /\ \/ f.allowed_attachments = <<>>
                \/ \A i \in 1..Len(in.attachments) :
                     \E k \in 1..Len(f.allowed_attachments) :
                        StandsAt(DotsApart(f.allowed_attachments[k]),
                                 DotsApart(in.attachments[i].filename),
                                 Len(DotsApart(in.attachments[i].filename))
                                   - Len(DotsApart(f.allowed_attachments[k])))

C32_Witness ==
    /\ FilterDone
    /\ ptrace[2].result
    /\ ptrace[1].file.subject = <<201>> \o Codes(<<"t">>) \o <<233>>
    /\ Len(ptrace[1].file.filters.subject_keywords) = 2
    /\ Len(ptrace[1].file.attachments) = 2
    /\ ptrace[1].file.attachments[1].filename
         = Codes(<<"A", ".", "P", "D", "F">>)
    /\ ptrace[1].file.attachments[2].filename
         = Codes(<<"a", ".", "p", "d", "f">>)
    /\ Len(ptrace[1].file.filters.allowed_attachments) = 2

\* the log positions at which the processing of an email with an HTML and
\* a text body begins that goes to body printing, both toggles enabled
BothBodies ==
    {j \in Calls({"process"}) :
        LET e == EmailMessage(log[j][2])
        IN /\ e.html_content # <<>> /\ e.text_content # <<>>
           /\ cfg.print_html_emails /\ cfg.print_text_emails
           /\ TakesBodyPath(e)}

\* the calls that the processing begun at log position j has made
CallsOf(j) == {k \in EntriesOf(j) : log[k][1] \in PrintOps}

\* C33: in body printing with an HTML and a text body and both toggles
\* enabled, print_html is called first, print_text is called if and only
\* if print_html did not succeed, and at most one of the body submissions
\* of the email succeeds.
C33_TextIffHtmlFailed ==
    \A j \in BothBodies :
        /\ CallsOf(j) \subseteq {j + 1, j + 2}
        /\ j + 1 \in CallsOf(j) =>
              /\ log[j + 1][1] = "print_html" /\ log[j + 1][2] = log[j][2]
        /\ j + 2 \in CallsOf(j) =>
              /\ log[j + 2][1] = "print_text" /\ log[j + 2][2] = log[j][2]
              /\ log[j + 1][3] # "ok"
        /\ AttemptOver(j) =>
              /\ j + 1 \in CallsOf(j)
              /\ log[j + 1][3] # "ok" => j + 2 \in CallsOf(j)
        /\ Cardinality({k \in CallsOf(j) : log[k][3] = "ok"}) <= 1

C33_Witness ==
    \E j \in BothBodies :
        /\ j + 2 <= Len(log)
        /\ log[j + 1] = <<"print_html", log[j][2], "fail">>
        /\ log[j + 2] = <<"print_text", log[j][2], "ok">>
        /\ stats.emails_printed = 1
        /\ pc = "idle"

\* the poll shows the job absent from the list or in a terminal state
AbsentOrTerminal(o) ==
    \/ o.kind = "gone"
    \/ o.kind = "state" /\ o.state \in {7, 8, 9}

\* how a wait that has returned came to return: every poll before the
\* last showed the job in the list in a state that is not terminal; the
\* last poll began before the timeout had elapsed; when it showed the job
\* absent or terminal, or failed, the call returned as the poll answered;
\* otherwise the call returned when the timeout had elapsed, less than one
\* poll interval (the status query and the sleep after it) later
ReturnedInTime ==
    LET n == Len(wait.polls)
        elapsed == wait.now - wait.start_time
        limit == wait.timeout * 10
    IN /\ \A k \in 1..(n - 1) :
             wait.polls[k].kind = "state" /\ ~AbsentOrTerminal(wait.polls[k])
       /\ n > 0 => wait.asked - wait.start_time < limit
       /\ IF n > 0 /\ (AbsentOrTerminal(wait.polls[n])
                       \/ wait.polls[n].kind = "error")
          THEN wait.now = wait.answered
          ELSE /\ cups_connection => elapsed >= limit
               /\ IF n = 0 THEN elapsed <= limit
                  ELSE elapsed < limit + (wait.answered - wait.asked)
                                 + POLL_SLEEP_TENTHS

\* C34: wait_for_job_completion always returns: at the first status poll
\* that shows the job absent from the job list or in a terminal state
\* (completed, canceled, aborted), at the first status query that fails,
\* and otherwise when the timeout has elapsed, no later than one poll
\* interval after it.
C34_WaitTerminates ==
    /\ <>(wait.pc = "returned")
    /\ [](wait.pc = "returned" => ReturnedInTime)

C34_Witness ==
    /\ wait.pc = "returned"
    /\ wait.timeout = 2
    /\ Len(wait.polls) = 4
    /\ wait.polls[4].kind = "state"
    /\ wait.polls[4].state = JOB_STATE_PROCESSING
    /\ wait.now - wait.start_time > wait.timeout * 10 + POLL_SLEEP_TENTHS

\* the messages the current cycle has marked Seen or flagged Deleted
MarkedInCycle ==
    {log[j][2] : j \in {k \in Calls({"store_seen", "store_deleted"}) :
                          log[k][3] = "ok"}}

\* C35: every message that a poll cycle marks Seen or flags Deleted is in
\* the batch of that cycle once its flags are set, the batch is given to
\* the callback, and when the callback has returned the message has had
\* its processing attempt.
C35_MarkedIsQueuedAndProcessed ==
    /\ (pc # "killed" /\ ~CutShort) =>
          MarkedInCycle \subseteq
             Range(emails)
             \cup (IF pc \in {"seen", "deleted"} THEN {cur} ELSE {})
    /\ (MarkedInCycle # {} /\ AtRest /\ ~CutShort)
          => MarkedInCycle \subseteq Range(Attempts(log))

C35_Witness ==
    /\ pc = "idle"
    /\ \E m \in MarkedInCycle :
          /\ m \in deleted /\ m \in seen
          /\ m \in Range(Attempts(log))
    /\ \E j \in Calls({"store_deleted"}) :
          /\ log[j][3] # "ok"
          /\ log[j][2] \in seen
          /\ log[j][2] \in Range(Attempts(log))

\* the messages the current cycle fetched and then rejected by a filter or
\* skipped as a duplicate
PassedOver ==
    {log[j][2] : j \in {k \in Calls({"fetch"}) :
                          log[k][3] \in {"dup", "reject"}}}

\* C36: a message that a poll cycle rejects by a filter or skips as a
\* duplicate gets no Seen and no Deleted store in that cycle, is not in
\* the cycle's batch and is not counted as accepted, and the id of a
\* rejected message is not put into the id cache.
C36_PassedOverUntouched ==
    \A m \in PassedOver :
        /\ \A j \in Calls({"store_seen", "store_deleted"}) : log[j][2] # m
        /\ m \notin Range(emails) /\ m # cur
        /\ cycles \notin accepted_in[m]
        /\ \A j \in Calls(PrintOps \cup {"process"}) : log[j][2] # m
        /\ (<<"fetch", m, "reject">> \in Range(log) /\ MessageId(m) # NoId)
              => MessageId(m) \notin processed_ids

C36_Witness ==
    /\ pc = "idle"
    /\ cycles = 2
    /\ \E m \in Msgs, n \in Msgs :
          /\ <<"fetch", m, "dup">> \in Range(log)
          /\ <<"fetch", n, "reject">> \in Range(log)
          /\ m \notin seen /\ n \notin seen

\* C37: a message without a Message-ID that passes the filters and that no
\* cycle has accepted is never skipped as a duplicate, so that two unread
\* messages that both lack a Message-ID are both accepted.
C37_NoIdNotDuplicateOfAnother ==
    \A j \in Calls({"fetch"}) :
        LET m == log[j][2]
        IN (/\ MessageId(m) = NoId
            /\ ShouldProcessEmail(EmailMessage(m))
            /\ accepted_in[m] = {})
           => log[j][3] # "dup"

\* C38: whenever the API thread reads the counters while the polling
\* thread is processing a batch, emails_printed <= emails_processed, and
\* neither counter ever decreases.
C38_PrintedWithinProcessed ==
    /\ [](Processing =>
            /\ GetStats.emails_printed <= GetStats.emails_processed
            /\ GetStatus.stats.emails_printed
                 <= GetStatus.stats.emails_processed)
    /\ [][/\ stats'.emails_printed >= stats.emails_printed
          /\ stats'.emails_processed >= stats.emails_processed]_vars

\* save_attachments has returned
SaveDone == Len(ptrace) = 2 /\ ptrace[1].name = "save_attachments"

\* _print_attachments, lines 266-270: print_file is called on each path of
\* saved_files and reads the file that is at that path when it is called
SubmittedFiles ==
    [k \in 1..Len(ptrace[2].result) |->
        [path |-> ptrace[2].result[k],
         data |-> ptrace[2].dir[ptrace[2].result[k]]]]

\* C39: for an email with N attachments, _print_attachments submits N
\* files with pairwise distinct paths, the i-th holding the data of the
\* i-th attachment, also when file names are equal or become equal by the
\* sanitizing.
C39_OneFilePerAttachment ==
    SaveDone =>
        LET attachments == ptrace[1].file
            submitted == SubmittedFiles
        IN /\ Len(submitted) = Len(attachments)
           /\ \A i \in DOMAIN submitted, j \in DOMAIN submitted :
                 i # j => submitted[i].path # submitted[j].path
           /\ \A i \in DOMAIN submitted :
                 submitted[i].data = attachments[i].data

\* C40: every temporary file that print_text, print_html and _html_to_pdf
\* made has been deleted when print_text or print_html returns, on success
\* and on every failure path.
C40_NoTempFileLeft ==
    (/\ ptrace # <<>>
     /\ ptrace[1].name \in {"print_text", "print_html"}
     /\ ptrace[Len(ptrace)].op = "return")
    => {t \in tempfiles : t.made_by = prints} = {}

============================================================================
